---- MODULE Spec2Model ----
(***************************************************************************)
(* Smart-home hub: the device registry (registry.py), the device classes   *)
(* (devices.py) and the command router with its snapshot persistence       *)
(* (smart_home_server.py).                                                 *)
(***************************************************************************)
EXTENDS Integers, Sequences, FiniteSets, TLC

VARIABLES
    DEVICES,         \* registry.DEVICES: room -> device_name -> device object
    devices_json,    \* content of device_states/devices.json
    tv_config_json,  \* content of device_states/tv_config.json
    mqtt_enabled,    \* smart_home_server.mqtt_enabled
    result,          \* what the last tool call gave back to its caller: [text |-> message]
    wrote,           \* the devices.json write of the last tool call: none / ok / failed
    sent,            \* channel calls of the last tool call: <<command, returncode ok>>
    published,       \* client.publish calls of the last tool call: <<topic, payload, rc>>
    fault_budget,    \* number of file writes and publishes that may still fail
    threads,         \* per worker thread: the tool call it runs, where it is, its locals
    television       \* actual power of the television sets that are followed, by address

vars == <<DEVICES, devices_json, tv_config_json, mqtt_enabled, result, wrote, sent,
          published, fault_budget, threads, television>>

(***************************************************************************)
(* Bounds of the model.                                                    *)
(***************************************************************************)
MaxFaults == 1

MaxChannelFailures == 2

(***************************************************************************)
(* str.lower() and str.strip() on ASCII strings.                           *)
(***************************************************************************)
UpperCase == "ABCDEFGHIJKLMNOPQRSTUVWXYZ"

LowerCase == "abcdefghijklmnopqrstuvwxyz"

Whitespace == {" ", "\t", "\n"}

CharAt(s, i) == SubSeq(s, i, i)

LowerChar(c) ==
    IF \E i \in 1..Len(UpperCase) : CharAt(UpperCase, i) = c
    THEN CharAt(LowerCase, CHOOSE i \in 1..Len(UpperCase) : CharAt(UpperCase, i) = c)
    ELSE c

RECURSIVE Lower(_)
Lower(s) == IF Len(s) = 0 THEN "" ELSE LowerChar(CharAt(s, 1)) \o Lower(SubSeq(s, 2, Len(s)))

UpperChar(c) ==
    IF \E i \in 1..Len(LowerCase) : CharAt(LowerCase, i) = c
    THEN CharAt(UpperCase, CHOOSE i \in 1..Len(LowerCase) : CharAt(LowerCase, i) = c)
    ELSE c

RECURSIVE Upper(_)
Upper(s) == IF Len(s) = 0 THEN "" ELSE UpperChar(CharAt(s, 1)) \o Upper(SubSeq(s, 2, Len(s)))

RECURSIVE LStrip(_)
LStrip(s) ==
    IF Len(s) > 0 /\ CharAt(s, 1) \in Whitespace THEN LStrip(SubSeq(s, 2, Len(s))) ELSE s

RECURSIVE RStrip(_)
RStrip(s) ==
    IF Len(s) > 0 /\ CharAt(s, Len(s)) \in Whitespace
    THEN RStrip(SubSeq(s, 1, Len(s) - 1)) ELSE s

Strip(s) == RStrip(LStrip(s))

(***************************************************************************)
(* Room aliases.                                                           *)
(***************************************************************************)
ROOM_ALIASES ==
    ("living room" :> "livingroom") @@ ("living_room" :> "livingroom") @@
    ("lounge" :> "livingroom") @@ ("hall" :> "livingroom") @@
    ("bed room" :> "bedroom") @@ ("bed_room" :> "bedroom") @@
    ("master bedroom" :> "bedroom") @@ ("kitchen" :> "kitchen") @@
    ("cook room" :> "kitchen")

(* the alias looked up without trimming *)
normalize_room_name_untrimmed(room) ==
    LET room_lower == Lower(room)
    IN  IF room_lower \in DOMAIN ROOM_ALIASES THEN ROOM_ALIASES[room_lower] ELSE room_lower

normalize_room_name(room) ==
    LET room_lower == Strip(Lower(room))
    IN  IF room_lower \in DOMAIN ROOM_ALIASES THEN ROOM_ALIASES[room_lower] ELSE room_lower

(***************************************************************************)
(* Device objects.  A record holds the instance attributes; cls is the     *)
(* Python class, which decides what hasattr() finds.                       *)
(***************************************************************************)
(* a capability field holds a Python int or a Python str *)
PyInt(i) == [int |-> i]

PyStr(v) == [str |-> v]

Device(name, cls, device_type, room) ==
    [cls |-> cls, name |-> name, type |-> device_type, room |-> room,
     state |-> [power |-> "OFF"]]

Light(name, room) ==
    [Device(name, "Light", "light", room) EXCEPT !.state = [power |-> "OFF", brightness |-> PyInt(0)]]

Fan(name, room) ==
    [Device(name, "Fan", "fan", room) EXCEPT !.state = [power |-> "OFF", speed |-> PyInt(0)]]

AC(name, room) ==
    [Device(name, "AC", "ac", room) EXCEPT !.state = [power |-> "OFF", temperature |-> PyInt(24)]]

Chimney(name, room) ==
    [Device(name, "Chimney", "chimney", room) EXCEPT !.state = [power |-> "OFF", mode |-> PyStr("OFF")]]

TV(name, room, ip_address, port) ==
    [cls |-> "TV", name |-> name, room |-> room, ip_address |-> ip_address, port |-> port,
     state |-> [power |-> "off", volume |-> 50, muted |-> FALSE, current_app |-> "home"]]

TVMethods ==
    {"turn_on", "turn_off", "volume_up", "volume_down", "mute", "home", "back",
     "open_netflix", "open_youtube", "search_and_play", "search_content", "send_text",
     "press_key", "check_connection", "update_connection_settings", "to_dict"}

Methods(dev) ==
    CASE dev.cls = "TV" -> TVMethods
      [] dev.cls = "Light" -> {"turn_on", "turn_off", "to_dict", "set_brightness"}
      [] dev.cls = "Fan" -> {"turn_on", "turn_off", "to_dict", "set_speed"}
      [] dev.cls = "AC" -> {"turn_on", "turn_off", "to_dict", "set_temperature"}
      [] dev.cls = "Chimney" -> {"turn_on", "turn_off", "to_dict", "set_mode"}

(* only what the instance dict holds, the methods of the class left out *)
hasattr_instance(dev, attr) == attr \in (DOMAIN dev \ {"cls"})

hasattr(dev, attr) == attr \in (DOMAIN dev \ {"cls"}) \/ attr \in Methods(dev)

to_dict(dev) ==
    IF dev.cls = "TV"
    THEN [name |-> dev.name, room |-> dev.room, type |-> "tv",
          ip_address |-> dev.ip_address, port |-> dev.port, state |-> dev.state]
    ELSE [name |-> dev.name, type |-> dev.type, room |-> dev.room, state |-> dev.state]

(***************************************************************************)
(* The statically seeded registry.                                         *)
(***************************************************************************)
SeedDevices ==
    [kitchen |-> [light1 |-> Light("light1", "kitchen"),
                  light2 |-> Light("light2", "kitchen"),
                  chimney |-> Chimney("chimney", "kitchen")],
     livingroom |-> [light3 |-> Light("light3", "livingroom"),
                     light4 |-> Light("light4", "livingroom"),
                     light5 |-> Light("light5", "livingroom"),
                     fan1 |-> Fan("fan1", "livingroom")],
     bedroom |-> [ac1 |-> AC("ac1", "bedroom"),
                  fan2 |-> Fan("fan2", "bedroom"),
                  light76 |-> Light("light76", "bedroom")]]

EmptyDict == [k \in {} |-> {}]

Has(D, room, device_name) == room \in DOMAIN D /\ device_name \in DOMAIN D[room]

Put(D, room, device_name, dev) ==
    LET bucket == IF room \in DOMAIN D THEN D[room] ELSE EmptyDict
    IN  [r \in DOMAIN D \cup {room} |->
            IF r = room
            THEN [n \in DOMAIN bucket \cup {device_name} |->
                    IF n = device_name THEN dev ELSE bucket[n]]
            ELSE D[r]]

Del(D, room, device_name) ==
    [D EXCEPT ![room] = [n \in DOMAIN D[room] \ {device_name} |-> D[room][n]]]

SetDefaultRoom(D, room) ==
    IF room \in DOMAIN D THEN D ELSE [r \in DOMAIN D \cup {room} |->
                                        IF r = room THEN EmptyDict ELSE D[r]]

(***************************************************************************)
(* Persistence: save_tv_config, save_state, load_tv_config and the startup *)
(* reload of television endpoints.                                         *)
(***************************************************************************)
TvNames(D, room) == {n \in DOMAIN D[room] : hasattr(D[room][n], "ip_address")}

(* the port left out of the saved record *)
tv_configs_without_port(D) ==
    [room \in {r \in DOMAIN D : TvNames(D, r) # {}} |->
        [n \in TvNames(D, room) |-> [ip_address |-> D[room][n].ip_address]]]

tv_configs(D) ==
    [room \in {r \in DOMAIN D : TvNames(D, r) # {}} |->
        [n \in TvNames(D, room) |->
            [ip_address |-> D[room][n].ip_address, port |-> D[room][n].port]]]

state_dict(D) == [room \in DOMAIN D |-> [n \in DOMAIN D[room] |-> to_dict(D[room][n])]]

(* A JSON value that is not an object (a string, a number, a list) and the
   content of a file that is not JSON.  An object is a function of its keys. *)
JsonScalar(v) == [scalar |-> v]

IsMapping(value) == "scalar" \notin DOMAIN value

UNPARSEABLE == [garbage |-> "{"]

json_load(content) == IF content = UNPARSEABLE THEN EmptyDict ELSE content

DEFAULT_PORT == 5555

(* every entry loaded, whether or not the name is taken *)
RECURSIVE LoadDevices_overwriting(_, _, _, _)
LoadDevices_overwriting(D, normalized_room, devices, names) ==
    IF names = {} THEN D
    ELSE LET device_name == CHOOSE n \in names : TRUE
             config == devices[device_name]
             loaded ==
                 IF "ip_address" \in DOMAIN config
                 THEN Put(D, normalized_room, device_name,
                          TV(device_name, normalized_room, config.ip_address,
                             IF "port" \in DOMAIN config THEN config.port ELSE DEFAULT_PORT))
                 ELSE D
         IN  LoadDevices_overwriting(loaded, normalized_room, devices, names \ {device_name})

RECURSIVE LoadDevices(_, _, _, _)
LoadDevices(D, normalized_room, devices, names) ==
    IF names = {} THEN D
    ELSE LET device_name == CHOOSE n \in names : TRUE
             config == devices[device_name]
             (* config["ip_address"] raises inside the try when config is not
                an object or has no such key *)
             loaded ==
                 IF "ip_address" \in DOMAIN config /\ device_name \notin DOMAIN D[normalized_room]
                 THEN Put(D, normalized_room, device_name,
                          TV(device_name, normalized_room, config.ip_address,
                             IF "port" \in DOMAIN config THEN config.port ELSE DEFAULT_PORT))
                 ELSE D
         IN  LoadDevices(loaded, normalized_room, devices, names \ {device_name})

(* the value of a room whose items() raises ends the loop, and the module *)
RECURSIVE LoadRooms(_, _, _)
LoadRooms(D, configs, rooms) ==
    IF rooms = {} THEN D
    ELSE LET room == CHOOSE r \in rooms : TRUE
             normalized_room == normalize_room_name(room)
         IN  IF ~IsMapping(configs[room]) THEN SetDefaultRoom(D, normalized_room)
             ELSE LoadRooms(LoadDevices(SetDefaultRoom(D, normalized_room), normalized_room,
                                        configs[room], DOMAIN configs[room]),
                            configs, rooms \ {room})

initialize_tv_configs(D, configs) ==
    IF IsMapping(configs) THEN LoadRooms(D, configs, DOMAIN configs) ELSE D

(* configs.items() and devices.items() are called outside the try of the
   loop's body *)
initialize_raises(configs) ==
    IF IsMapping(configs) THEN \E room \in DOMAIN configs : ~IsMapping(configs[room])
    ELSE TRUE

(***************************************************************************)
(* Device methods.  A channel-backed method takes the return codes ch of   *)
(* the channel calls it will make, in order, and gives back the device,    *)
(* its return value and the calls it made.                                 *)
(***************************************************************************)
Min(a, b) == IF a < b THEN a ELSE b

Max(a, b) == IF a > b THEN a ELSE b

(* the spelling of the televisions *)
Device_turn_on_lowercase(dev) == [dev EXCEPT !.state.power = "on"]

Device_turn_on(dev) == [dev EXCEPT !.state.power = "ON"]

Device_turn_off(dev) == [dev EXCEPT !.state.power = "OFF"]

AdbCall(dev, command, ok) ==
    [ip_address |-> dev.ip_address, port |-> dev.port, command |-> command, ok |-> ok]

TV_turn_on(dev, ch) ==
    [dev |-> IF ch[1] THEN [dev EXCEPT !.state.power = "on"] ELSE dev,
     ret |-> ch[1],
     sent |-> <<AdbCall(dev, "input keyevent KEYCODE_POWER", ch[1])>>]

(* the power field set without looking at the return code *)
TV_turn_off_unchecked(dev, ch) ==
    [dev |-> [dev EXCEPT !.state.power = "off"],
     ret |-> ch[1],
     sent |-> <<AdbCall(dev, "input keyevent KEYCODE_POWER", ch[1])>>]

TV_turn_off(dev, ch) ==
    [dev |-> IF ch[1] THEN [dev EXCEPT !.state.power = "off"] ELSE dev,
     ret |-> ch[1],
     sent |-> <<AdbCall(dev, "input keyevent KEYCODE_POWER", ch[1])>>]

(* the volume raised without looking at the return code *)
TV_volume_up_unchecked(dev, ch) ==
    [dev |-> [dev EXCEPT !.state.volume = Min(100, @ + 5)],
     ret |-> ch[1],
     sent |-> <<AdbCall(dev, "input keyevent KEYCODE_VOLUME_UP", ch[1])>>]

TV_volume_up(dev, ch) ==
    [dev |-> IF ch[1] THEN [dev EXCEPT !.state.volume = Min(100, @ + 5)] ELSE dev,
     ret |-> ch[1],
     sent |-> <<AdbCall(dev, "input keyevent KEYCODE_VOLUME_UP", ch[1])>>]

(* the subtraction without its floor *)
TV_volume_down_unfloored(dev, ch) ==
    [dev |-> IF ch[1] THEN [dev EXCEPT !.state.volume = dev.state.volume - 5] ELSE dev,
     ret |-> ch[1],
     sent |-> <<AdbCall(dev, "input keyevent KEYCODE_VOLUME_DOWN", ch[1])>>]

TV_volume_down(dev, ch) ==
    [dev |-> IF ch[1] THEN [dev EXCEPT !.state.volume = Max(0, @ - 5)] ELSE dev,
     ret |-> ch[1],
     sent |-> <<AdbCall(dev, "input keyevent KEYCODE_VOLUME_DOWN", ch[1])>>]

TV_mute(dev, ch) ==
    [dev |-> IF ch[1] THEN [dev EXCEPT !.state.muted = ~@] ELSE dev,
     ret |-> ch[1],
     sent |-> <<AdbCall(dev, "input keyevent KEYCODE_VOLUME_MUTE", ch[1])>>]

(* home recorded whether or not the signal went through *)
TV_home_unchecked(dev, ch) ==
    [dev |-> [dev EXCEPT !.state.current_app = "home"],
     ret |-> ch[1],
     sent |-> <<AdbCall(dev, "input keyevent KEYCODE_HOME", ch[1])>>]

TV_home(dev, ch) ==
    [dev |-> IF ch[1] THEN [dev EXCEPT !.state.current_app = "home"] ELSE dev,
     ret |-> ch[1],
     sent |-> <<AdbCall(dev, "input keyevent KEYCODE_HOME", ch[1])>>]

TV_back(dev, ch) ==
    [dev |-> dev, ret |-> ch[1],
     sent |-> <<AdbCall(dev, "input keyevent KEYCODE_BACK", ch[1])>>]

(* the alternate launch sent whether or not the primary went through *)
TV_open_always_retrying(dev, ch, app, primary, alternate) ==
    LET success == ch[1] \/ ch[2]
    IN  [dev |-> IF success THEN [dev EXCEPT !.state.current_app = app] ELSE dev,
         ret |-> success,
         sent |-> <<AdbCall(dev, primary, ch[1]), AdbCall(dev, alternate, ch[2])>>]

TV_open(dev, ch, app, primary, alternate) ==
    LET success == ch[1] \/ ch[2]
    IN  [dev |-> IF success THEN [dev EXCEPT !.state.current_app = app] ELSE dev,
         ret |-> success,
         sent |-> IF ch[1] THEN <<AdbCall(dev, primary, TRUE)>>
                  ELSE <<AdbCall(dev, primary, FALSE), AdbCall(dev, alternate, ch[2])>>]

TV_open_netflix(dev, ch) ==
    TV_open(dev, ch, "netflix", "monkey -p com.netflix.ninja 1",
            "am start -n com.netflix.ninja/.MainActivity")

TV_open_youtube(dev, ch) ==
    TV_open(dev, ch, "youtube", "monkey -p com.google.android.youtube.tv 1",
            "am start -n com.google.android.youtube.tv/.MainActivity")

(* send_text: spaces become %s, then re.sub(r'[^\w%s]', '', ...) drops every
   character that is neither a word character nor '%' *)
WordChars == LowerCase \o UpperCase \o "0123456789_"

IsWordChar(c) == \E i \in 1..Len(WordChars) : CharAt(WordChars, i) = c

RECURSIVE ReplaceSpaces(_)
ReplaceSpaces(text) ==
    IF Len(text) = 0 THEN ""
    ELSE (IF CharAt(text, 1) = " " THEN "%s" ELSE CharAt(text, 1))
            \o ReplaceSpaces(SubSeq(text, 2, Len(text)))

RECURSIVE KeepWordChars(_)
KeepWordChars(text) ==
    IF Len(text) = 0 THEN ""
    ELSE (IF IsWordChar(CharAt(text, 1)) \/ CharAt(text, 1) = "%" THEN CharAt(text, 1) ELSE "")
            \o KeepWordChars(SubSeq(text, 2, Len(text)))

cleaned_text(text) == KeepWordChars(ReplaceSpaces(text))

SEARCH == "input keyevent KEYCODE_SEARCH"

DPAD_UP == "input keyevent KEYCODE_DPAD_UP"

ENTER == "input keyevent KEYCODE_ENTER"

(* cleaned is cleaned_text(text) *)
TV_send_text(dev, ch, cleaned) ==
    [dev |-> dev, ret |-> ch[1],
     sent |-> <<AdbCall(dev, "input text '" \o cleaned \o "'", ch[1])>>]

(* the app opened first, by both search methods; any other app is searched as
   it stands *)
OpenForSearch(dev, ch, app) ==
    IF app = "netflix" THEN TV_open_netflix(dev, ch)
    ELSE IF app = "youtube" THEN TV_open_youtube(dev, ch)
    ELSE [dev |-> dev, ret |-> TRUE, sent |-> <<>>]

TV_search_and_play(dev, ch, cleaned, app) ==
    LET opened == OpenForSearch(dev, ch, app)
        n == Len(opened.sent)
        tv == opened.dev
        fallback == ~ch[n + 1] /\ app = "netflix"
        summon ==
            IF fallback
            THEN <<AdbCall(tv, SEARCH, FALSE), AdbCall(tv, DPAD_UP, ch[n + 2]),
                   AdbCall(tv, DPAD_UP, ch[n + 3]), AdbCall(tv, ENTER, ch[n + 4])>>
            ELSE <<AdbCall(tv, SEARCH, ch[n + 1])>>
        search_success == ch[n + 1] \/ fallback
        m == n + Len(summon)
        text == TV_send_text(tv, <<ch[m + 1]>>, cleaned)
        enters == <<AdbCall(tv, ENTER, ch[m + 2]), AdbCall(tv, ENTER, ch[m + 3])>>
    IN  IF ~opened.ret THEN [dev |-> tv, ret |-> FALSE, sent |-> opened.sent]
        ELSE IF ~search_success
        THEN [dev |-> tv, ret |-> FALSE, sent |-> opened.sent \o summon]
        ELSE IF ~text.ret
        THEN [dev |-> tv, ret |-> FALSE, sent |-> opened.sent \o summon \o text.sent]
        ELSE [dev |-> tv, ret |-> TRUE,
              sent |-> opened.sent \o summon \o text.sent \o enters]

TV_search_content(dev, ch, cleaned, app) ==
    LET opened == OpenForSearch(dev, ch, app)
        n == Len(opened.sent)
        tv == opened.dev
        search == <<AdbCall(tv, SEARCH, ch[n + 1])>>
        text == TV_send_text(tv, <<ch[n + 2]>>, cleaned)
    IN  IF ~opened.ret THEN [dev |-> tv, ret |-> FALSE, sent |-> opened.sent]
        ELSE IF ~ch[n + 1] THEN [dev |-> tv, ret |-> FALSE, sent |-> opened.sent \o search]
        ELSE IF ~text.ret
        THEN [dev |-> tv, ret |-> FALSE, sent |-> opened.sent \o search \o text.sent]
        ELSE [dev |-> tv, ret |-> TRUE,
              sent |-> opened.sent \o search \o text.sent
                        \o <<AdbCall(tv, ENTER, ch[n + 3])>>]

(* the answer of the television kept as its power *)
TV_check_connection_marking(dev, ch) ==
    [dev |-> [dev EXCEPT !.state.power = IF ch[1] THEN "on" ELSE "off"],
     ret |-> ch[1], sent |-> <<AdbCall(dev, "echo 'test'", ch[1])>>]

TV_check_connection(dev, ch) ==
    [dev |-> dev, ret |-> ch[1], sent |-> <<AdbCall(dev, "echo 'test'", ch[1])>>]

KEY_CODES ==
    [enter |-> "KEYCODE_ENTER", back |-> "KEYCODE_BACK", home |-> "KEYCODE_HOME",
     up |-> "KEYCODE_DPAD_UP", down |-> "KEYCODE_DPAD_DOWN", left |-> "KEYCODE_DPAD_LEFT",
     right |-> "KEYCODE_DPAD_RIGHT", menu |-> "KEYCODE_MENU", play |-> "KEYCODE_MEDIA_PLAY",
     pause |-> "KEYCODE_MEDIA_PAUSE", search |-> "KEYCODE_SEARCH", ok |-> "KEYCODE_ENTER",
     select |-> "KEYCODE_ENTER"]

(* lowered is key.lower() *)
(* the home key recorded as a return to the home screen *)
TV_press_key_going_home(dev, ch, lowered) ==
    IF lowered \in DOMAIN KEY_CODES
    THEN [dev |-> IF ch[1] /\ lowered = "home" THEN [dev EXCEPT !.state.current_app = "home"]
                  ELSE dev,
          ret |-> ch[1],
          sent |-> <<AdbCall(dev, "input keyevent " \o KEY_CODES[lowered], ch[1])>>]
    ELSE [dev |-> dev, ret |-> FALSE, sent |-> <<>>]

TV_press_key(dev, ch, lowered) ==
    IF lowered \in DOMAIN KEY_CODES
    THEN [dev |-> dev, ret |-> ch[1],
          sent |-> <<AdbCall(dev, "input keyevent " \o KEY_CODES[lowered], ch[1])>>]
    ELSE [dev |-> dev, ret |-> FALSE, sent |-> <<>>]

(* What the two subprocess.run calls of _send_adb_command can end in, and what
   the method returns for it: both calls are inside its try. *)
AdbOutcomes == {"returncode 0", "returncode 1", "TimeoutExpired", "OSError"}

(* a call that timed out taken for one that went through *)
send_adb_command_lenient(outcome) == outcome \in {"returncode 0", "TimeoutExpired"}

send_adb_command(outcome) == outcome = "returncode 0"

(* the return codes a method consumes: n calls, the k-th one only as far as it is made *)
Codes(n) == [1..n -> BOOLEAN]

(* the return codes of the search methods: up to 9 calls, of which at most
   MaxChannelFailures fail *)
MAX_SEARCH_CALLS == 9

SearchCodes ==
    {ch \in Codes(MAX_SEARCH_CALLS) :
        Cardinality({i \in 1..MAX_SEARCH_CALLS : ~ch[i]}) <= MaxChannelFailures}

(***************************************************************************)
(* Validation of the endpoint given to the configuration tools:            *)
(* re.match(ip_pattern, ip_address) and 1 <= port <= 65535.                *)
(***************************************************************************)
Digits == "0123456789"

IsDigit(c) == \E i \in 1..Len(Digits) : CharAt(Digits, i) = c

RECURSIVE AllDigits(_)
AllDigits(s) == Len(s) = 0 \/ (IsDigit(CharAt(s, 1)) /\ AllDigits(SubSeq(s, 2, Len(s))))

(* (?:25[0-5]|2[0-4][0-9]|[01]?[0-9][0-9]?) *)
Octet(s) ==
    /\ Len(s) \in 1..3
    /\ AllDigits(s)
    /\ Len(s) = 3 =>
        \/ CharAt(s, 1) \in {"0", "1"}
        \/ CharAt(s, 1) = "2" /\ CharAt(s, 2) \in {"0", "1", "2", "3", "4"}
        \/ CharAt(s, 1) = "2" /\ CharAt(s, 2) = "5"
           /\ CharAt(s, 3) \in {"0", "1", "2", "3", "4", "5"}

RECURSIVE SplitDots(_, _)
SplitDots(s, part) ==
    IF Len(s) = 0 THEN <<part>>
    ELSE IF CharAt(s, 1) = "." THEN <<part>> \o SplitDots(SubSeq(s, 2, Len(s)), "")
    ELSE SplitDots(SubSeq(s, 2, Len(s)), part \o CharAt(s, 1))

DottedQuad(s) ==
    LET parts == SplitDots(s, "")
    IN  Len(parts) = 4 /\ \A i \in 1..4 : Octet(parts[i])

(* '$' also matches just before a newline that ends the string *)
ip_pattern_match(ip_address) ==
    \/ DottedQuad(ip_address)
    \/ /\ Len(ip_address) > 0
       /\ CharAt(ip_address, Len(ip_address)) = "\n"
       /\ DottedQuad(SubSeq(ip_address, 1, Len(ip_address) - 1))

MIN_PORT == 1

MAX_PORT == 65535

port_in_range(port) == MIN_PORT <= port /\ port <= MAX_PORT

(***************************************************************************)
(* Inputs of the model.  A target is the (room, device_name) pair a tool   *)
(* is called with.                                                         *)
(***************************************************************************)
SimpleTargets ==
    {<<"livingroom", "light3">>, <<"Lounge ", "light3">>, <<"livingroom", "fan1">>,
     <<"bedroom", "ac1">>, <<"kitchen", "chimney">>, <<"bedroom", "light3">>}

TvTargets == {<<"livingroom", "tv">>, <<" Hall", "tv">>}

FaultyTargets == {<<"livingroom", "light3">>, <<"hall", "tv">>}

(* set_device_value: one device of each kind, a television and an unknown pair *)
ValueTargets ==
    {<<"Living Room", "light3">>, <<"livingroom", "fan1">>, <<"bedroom", "ac1">>,
     <<"kitchen", "chimney">>, <<"hall", "tv">>, <<"kitchen", "fan1">>}

(* the search tools *)
SearchTargets == {<<"Hall", "tv">>, <<"livingroom", "fan1">>}

SearchApps == {"Netflix", "youtube", "prime"}

Queries == {"Brooklyn 99!"}

Texts == {"Brooklyn 99!", "a_b", "50% off"}

PressKeys == {"Home", "ok", "rewind"}

(* the configuration tools: a television in a seeded room, one in a room that
   does not exist yet, a seeded light and a pair that is never registered *)
AddTargets == {<<"Hall ", "tv">>, <<"garage", "tv2">>, <<"livingroom", "light3">>}

ConfigTargets == AddTargets \cup {<<"livingroom", "tv">>, <<"attic", "tv">>}

ConfigAddresses == {"192.168.1.14", "10.0.0.7", "999.1.1.1", "192.168.1.14\n"}

ConfigPorts == {5555, 5556, 0, 70000}

(* tv_config.json as a user may have edited it: an entry under the key of a
   seeded light, an entry without a port, the same television under two names
   of its room *)
CONFIG_OVER_LIGHT ==
    [livingroom |-> [light3 |-> [ip_address |-> "10.0.0.7", port |-> 5556],
                     tv |-> [ip_address |-> "192.168.1.14"]]]

CONFIG_TWICE ==
    [hall |-> [tv |-> [ip_address |-> "10.0.0.7", port |-> 5556]],
     livingroom |-> [tv |-> [ip_address |-> "192.168.1.14", port |-> 5555]]]

CONFIG_TWICE_SWAPPED ==
    [hall |-> [tv |-> [ip_address |-> "192.168.1.14", port |-> 5555]],
     livingroom |-> [tv |-> [ip_address |-> "10.0.0.7", port |-> 5556]]]

ConfigFiles == {[k \in {} |-> {}], CONFIG_OVER_LIGHT, CONFIG_TWICE, CONFIG_TWICE_SWAPPED}

(* a hand-edited file: a room under an alias, a new endpoint for the
   television of the living room and an entry over a light *)
CONFIG_ALIASED ==
    ("Bed Room" :> [tv2 |-> [ip_address |-> "10.0.0.7"]]) @@
    ("livingroom" :> [light3 |-> [ip_address |-> "10.0.0.7", port |-> 5556],
                      tv |-> [ip_address |-> "10.0.0.7", port |-> 5556]])

Rooms ==
    {t[1] : t \in SimpleTargets \cup TvTargets \cup FaultyTargets \cup ValueTargets
                    \cup ConfigTargets \cup SearchTargets}
    \cup UNION {DOMAIN configs : configs \in ConfigFiles \cup {CONFIG_ALIASED}}

Addresses == {"192.168.1.14", "999.1.1.1"}

Ports == {5555, 70000}

Keys == {"brightness", "volume"}

Values == {"75"}

ValueKeys == {"brightness", "speed", "temperature", "mode", "volume"}

ValueValues == {"75", "AUTO"}

Apps == {"netflix", "YouTube", "home", "prime"}

Directions == {"back", "Home", "up"}

TV_CONFIG_EXAMPLE == [livingroom |-> [tv |-> [ip_address |-> "192.168.1.14", port |-> 5555]]]

(* the conversions of the handlers, evaluated once for the inputs above *)
NormalizedRoom == [room \in Rooms |-> normalize_room_name(room)]

LowerOf == [word \in Apps \cup Directions \cup SearchApps \cup PressKeys |-> Lower(word)]

CleanedOf == [text \in Queries \cup Texts |-> cleaned_text(text)]

UpperOf == [key \in Keys \cup ValueKeys \cup {"power"} |-> Upper(key)]

IpMatches == [ip_address \in Addresses \cup ConfigAddresses |-> ip_pattern_match(ip_address)]

(***************************************************************************)
(* Worker threads that run tool calls at the same time.                    *)
(***************************************************************************)
Threads == {1, 2}

NoCall == [op |-> "none"]

Idle ==
    [pc |-> "idle", call |-> NoCall, success |-> FALSE, volume |-> 0, muted |-> FALSE,
     buffer |-> EmptyDict, result |-> [text |-> "none"]]

(***************************************************************************)
(* What a tool call gives back.                                            *)
(***************************************************************************)
RAISED == "OSError raised by save_state"

NOT_FOUND == "Device not found in room."

NOW_ON == "is now ON."

NOW_OFF == "is now OFF."

VALUE_SET == "set to value."

NOT_SUPPORTED == "Device does not support key."

NOT_A_TV == "Device is not a TV."

VOLUME_UP_OK == "TV volume increased."

VOLUME_UP_FAILED == "Failed to increase TV volume. Connection issue."

VOLUME_DOWN_OK == "TV volume decreased."

VOLUME_DOWN_FAILED == "Failed to decrease TV volume. Connection issue."

MUTE_OK == "TV is now muted/unmuted."

MUTE_FAILED == "Failed to mute/unmute TV. Connection issue."

APP_OPENED == "Opened app on TV."

APP_FAILED == "Failed to open app on TV. Connection issue."

APP_NOT_SUPPORTED == "App not supported. Available: netflix, youtube, home"

NAVIGATE_OK == "TV navigation: command sent."

NAVIGATE_FAILED == "Failed to send command to TV."

NAVIGATE_NOT_SUPPORTED == "Navigation command not supported. Available: back, home"

(***************************************************************************)
(* Effects shared by the handlers.                                         *)
(***************************************************************************)
WriteOutcomes ==
    {"ok"} \cup (IF fault_budget > 0 THEN {"devices_fail", "config_fail"} ELSE {})

(* return codes of the n channel calls a method of dev makes *)
Channel(dev, n) == IF dev.cls = "TV" THEN Codes(n) ELSE {[i \in 1..n |-> TRUE]}

(* the dump laid over what devices.json held, instead of replacing it *)
save_state_merging(D, w) ==
    LET new == state_dict(D)
        merged ==
            [room \in DOMAIN devices_json \cup DOMAIN new |->
                IF room \notin DOMAIN new THEN devices_json[room]
                ELSE IF room \notin DOMAIN devices_json THEN new[room]
                ELSE [n \in DOMAIN devices_json[room] \cup DOMAIN new[room] |->
                        IF n \in DOMAIN new[room] THEN new[room][n]
                        ELSE devices_json[room][n]]]
    IN  [devices_json |-> IF w = "devices_fail" THEN devices_json ELSE merged,
         tv_config_json |-> IF w = "ok" THEN tv_configs(D) ELSE tv_config_json,
         raised |-> w = "devices_fail"]

save_state(D, w) ==
    [devices_json |-> IF w = "devices_fail" THEN devices_json ELSE state_dict(D),
     tv_config_json |-> IF w = "ok" THEN tv_configs(D) ELSE tv_config_json,
     raised |-> w = "devices_fail"]

(* The television set at the other end of the channel: its power flips on
   every power key it receives.  sets maps the address of each set that is
   followed to its actual power. *)
RECURSIVE Signalled(_, _)
Signalled(sets, calls) ==
    IF calls = <<>> THEN sets
    ELSE LET call == Head(calls)
             flipped ==
                 IF /\ call.ok
                    /\ call.command = "input keyevent KEYCODE_POWER"
                    /\ call.ip_address \in DOMAIN sets
                 THEN [sets EXCEPT ![call.ip_address] = IF @ = "on" THEN "off" ELSE "on"]
                 ELSE sets
         IN  Signalled(flipped, Tail(calls))

(* a return that first writes the snapshot *)
Return_saving(D, calls, pubs, msg) ==
    /\ DEVICES' = D
    /\ sent' = calls
    /\ published' = pubs
    /\ result' = [text |-> msg]
    /\ wrote' = "ok"
    /\ devices_json' = state_dict(D)
    /\ UNCHANGED <<tv_config_json, mqtt_enabled, fault_budget, threads>>
    /\ television' = Signalled(television, sent')

(* a handler that returns msg without saving *)
Return(D, calls, pubs, msg) ==
    /\ DEVICES' = D
    /\ sent' = calls
    /\ published' = pubs
    /\ result' = [text |-> msg]
    /\ wrote' = "none"
    /\ UNCHANGED <<devices_json, tv_config_json, mqtt_enabled, fault_budget, threads>>
    /\ television' = Signalled(television, sent')

(* a handler that calls save_state() and then returns msg; failed is what the
   caller gets when save_state raises *)
(* the publishes of a handler that did not go out *)
FailedPublishes(pubs) == IF pubs # <<>> /\ pubs[1][3] # "ok" THEN 1 ELSE 0

PUBLISH_FAILED == "Failed to publish."

(* the return code of client.publish looked at, the call given up when the
   message did not go out *)
SaveAndReturn_checked(D, calls, pubs, w, msg, failed) ==
    LET files == save_state(D, w)
        faults == (IF w = "ok" THEN 0 ELSE 1) + FailedPublishes(pubs)
        gave_up == FailedPublishes(pubs) > 0
    IN  /\ faults <= fault_budget
        /\ gave_up => w = "ok"
        /\ DEVICES' = D
        /\ sent' = calls
        /\ published' = pubs
        /\ devices_json' = IF gave_up THEN devices_json ELSE files.devices_json
        /\ tv_config_json' = IF gave_up THEN tv_config_json ELSE files.tv_config_json
        /\ result' = [text |-> IF gave_up THEN PUBLISH_FAILED
                               ELSE IF files.raised THEN failed ELSE msg]
        /\ wrote' = IF gave_up THEN "none" ELSE IF files.raised THEN "failed" ELSE "ok"
        /\ fault_budget' = fault_budget - faults
        /\ UNCHANGED <<mqtt_enabled, threads>>
        /\ television' = Signalled(television, sent')

SaveAndReturn(D, calls, pubs, w, msg, failed) ==
    LET files == save_state(D, w)
        faults == (IF w = "ok" THEN 0 ELSE 1) + FailedPublishes(pubs)
    IN  /\ faults <= fault_budget
        /\ DEVICES' = D
        /\ sent' = calls
        /\ published' = pubs
        /\ devices_json' = files.devices_json
        /\ tv_config_json' = files.tv_config_json
        /\ result' = [text |-> IF files.raised THEN failed ELSE msg]
        /\ wrote' = IF files.raised THEN "failed" ELSE "ok"
        /\ fault_budget' = fault_budget - faults
        /\ UNCHANGED <<mqtt_enabled, threads>>
        /\ television' = Signalled(television, sent')

Topic(room, device_name) == "home/" \o room \o "/" \o device_name \o "/set"

(* what client.publish gives back: the message went out, or the connection to
   the broker is gone and the call returns MQTT_ERR_NO_CONN *)
PublishOutcomes ==
    {"ok"} \cup (IF mqtt_enabled /\ fault_budget > 0 THEN {"no_conn"} ELSE {})

Publish(topic, payload, rc) == IF mqtt_enabled THEN <<<<topic, payload, rc>>>> ELSE <<>>

(* dev.turn_on() and dev.turn_off() as the class of dev resolves them *)
dev_turn_on(dev, ch) ==
    IF dev.cls = "TV" THEN TV_turn_on(dev, ch)
    ELSE [dev |-> Device_turn_on(dev), ret |-> "None", sent |-> <<>>]

dev_turn_off(dev, ch) ==
    IF dev.cls = "TV" THEN TV_turn_off(dev, ch)
    ELSE [dev |-> Device_turn_off(dev), ret |-> "None", sent |-> <<>>]

(***************************************************************************)
(* The tools of the command router.                                        *)
(***************************************************************************)
turn_on_device(room, device_name) ==
    IF Has(DEVICES, room, device_name)
    THEN \E ch \in Channel(DEVICES[room][device_name], 1), w \in WriteOutcomes,
            rc \in PublishOutcomes :
            LET r == dev_turn_on(DEVICES[room][device_name], ch)
            IN  SaveAndReturn([DEVICES EXCEPT ![room][device_name] = r.dev], r.sent,
                              Publish(Topic(room, device_name), "ON", rc), w, NOW_ON, RAISED)
    ELSE Return(DEVICES, <<>>, <<>>, NOT_FOUND)

turn_off_device(room, device_name) ==
    IF Has(DEVICES, room, device_name)
    THEN \E ch \in Channel(DEVICES[room][device_name], 1), w \in WriteOutcomes,
            rc \in PublishOutcomes :
            LET r == dev_turn_off(DEVICES[room][device_name], ch)
            IN  SaveAndReturn([DEVICES EXCEPT ![room][device_name] = r.dev], r.sent,
                              Publish(Topic(room, device_name), "OFF", rc), w, NOW_OFF, RAISED)
    ELSE Return(DEVICES, <<>>, <<>>, NOT_FOUND)

set_device_value(room, device_name, key, value) ==
    LET normalized_room == NormalizedRoom[room]
    IN  IF Has(DEVICES, normalized_room, device_name)
        THEN LET dev == DEVICES[normalized_room][device_name]
             IN  IF hasattr(dev, "set_" \o key)
                 THEN \E w \in WriteOutcomes, rc \in PublishOutcomes :
                        SaveAndReturn(
                            [DEVICES EXCEPT ![normalized_room][device_name].state[key] =
                                                PyStr(value)],
                            <<>>,
                            Publish(Topic(normalized_room, device_name),
                                    UpperOf[key] \o ":" \o value, rc),
                            w, VALUE_SET, RAISED)
                 ELSE Return(DEVICES, <<>>, <<>>, NOT_SUPPORTED)
        ELSE Return(DEVICES, <<>>, <<>>, NOT_FOUND)

DEVICE_STATE == "json of the device"

get_device_state(room, device_name) ==
    LET normalized_room == NormalizedRoom[room]
    IN  IF Has(DEVICES, normalized_room, device_name)
        THEN /\ result' = [text |-> DEVICE_STATE,
                           json |-> to_dict(DEVICES[normalized_room][device_name])]
             /\ wrote' = "none"
             /\ sent' = <<>>
             /\ published' = <<>>
             /\ UNCHANGED <<DEVICES, devices_json, tv_config_json, mqtt_enabled, fault_budget, threads, television>>
        ELSE Return(DEVICES, <<>>, <<>>, NOT_FOUND)

(* the shape shared by tv_volume_up, tv_volume_down and tv_mute: r is what the
   device method gave back *)
(* after a failed call the room is stored anew with the television alone *)
TvCommand_whole_room(normalized_room, device_name, r, w, ok_msg, failed_msg) ==
    IF r.ret
    THEN SaveAndReturn([DEVICES EXCEPT ![normalized_room][device_name] = r.dev], r.sent,
                       <<>>, w, ok_msg, RAISED)
    ELSE /\ w = "ok"
         /\ Return([DEVICES EXCEPT ![normalized_room] = [n \in {device_name} |-> r.dev]],
                   r.sent, <<>>, failed_msg)

TvCommand(normalized_room, device_name, r, w, ok_msg, failed_msg) ==
    IF r.ret
    THEN SaveAndReturn([DEVICES EXCEPT ![normalized_room][device_name] = r.dev], r.sent,
                       <<>>, w, ok_msg, RAISED)
    ELSE /\ w = "ok"
         /\ Return([DEVICES EXCEPT ![normalized_room][device_name] = r.dev], r.sent, <<>>,
                   failed_msg)

tv_volume_up(room, device_name) ==
    LET normalized_room == NormalizedRoom[room]
    IN  IF Has(DEVICES, normalized_room, device_name)
        THEN LET dev == DEVICES[normalized_room][device_name]
             IN  IF hasattr(dev, "volume_up")
                 THEN \E ch \in Codes(1), w \in WriteOutcomes :
                        TvCommand(normalized_room, device_name, TV_volume_up(dev, ch), w,
                                  VOLUME_UP_OK, VOLUME_UP_FAILED)
                 ELSE Return(DEVICES, <<>>, <<>>, NOT_A_TV)
        ELSE Return(DEVICES, <<>>, <<>>, NOT_FOUND)

tv_volume_down(room, device_name) ==
    LET normalized_room == NormalizedRoom[room]
    IN  IF Has(DEVICES, normalized_room, device_name)
        THEN LET dev == DEVICES[normalized_room][device_name]
             IN  IF hasattr(dev, "volume_down")
                 THEN \E ch \in Codes(1), w \in WriteOutcomes :
                        TvCommand(normalized_room, device_name, TV_volume_down(dev, ch), w,
                                  VOLUME_DOWN_OK, VOLUME_DOWN_FAILED)
                 ELSE Return(DEVICES, <<>>, <<>>, NOT_A_TV)
        ELSE Return(DEVICES, <<>>, <<>>, NOT_FOUND)

tv_mute(room, device_name) ==
    LET normalized_room == NormalizedRoom[room]
    IN  IF Has(DEVICES, normalized_room, device_name)
        THEN LET dev == DEVICES[normalized_room][device_name]
             IN  IF hasattr(dev, "mute")
                 THEN \E ch \in Codes(1), w \in WriteOutcomes :
                        TvCommand(normalized_room, device_name, TV_mute(dev, ch), w,
                                  MUTE_OK, MUTE_FAILED)
                 ELSE Return(DEVICES, <<>>, <<>>, NOT_A_TV)
        ELSE Return(DEVICES, <<>>, <<>>, NOT_FOUND)

tv_open_app(room, device_name, app) ==
    LET normalized_room == NormalizedRoom[room]
    IN  IF Has(DEVICES, normalized_room, device_name)
        THEN LET dev == DEVICES[normalized_room][device_name]
             IN  IF LowerOf[app] = "netflix" /\ hasattr(dev, "open_netflix")
                 THEN \E ch \in Codes(2), w \in WriteOutcomes :
                        TvCommand(normalized_room, device_name, TV_open_netflix(dev, ch), w,
                                  APP_OPENED, APP_FAILED)
                 ELSE IF LowerOf[app] = "youtube" /\ hasattr(dev, "open_youtube")
                 THEN \E ch \in Codes(2), w \in WriteOutcomes :
                        TvCommand(normalized_room, device_name, TV_open_youtube(dev, ch), w,
                                  APP_OPENED, APP_FAILED)
                 ELSE IF LowerOf[app] = "home" /\ hasattr(dev, "home")
                 THEN \E ch \in Codes(1), w \in WriteOutcomes :
                        TvCommand(normalized_room, device_name, TV_home(dev, ch), w,
                                  APP_OPENED, APP_FAILED)
                 ELSE Return(DEVICES, <<>>, <<>>, APP_NOT_SUPPORTED)
        ELSE Return(DEVICES, <<>>, <<>>, NOT_FOUND)

tv_navigate(room, device_name, direction) ==
    LET normalized_room == NormalizedRoom[room]
    IN  IF Has(DEVICES, normalized_room, device_name)
        THEN LET dev == DEVICES[normalized_room][device_name]
             IN  IF LowerOf[direction] = "back" /\ hasattr(dev, "back")
                 THEN \E ch \in Codes(1), w \in WriteOutcomes :
                        TvCommand(normalized_room, device_name, TV_back(dev, ch), w,
                                  NAVIGATE_OK, NAVIGATE_FAILED)
                 ELSE IF LowerOf[direction] = "home" /\ hasattr(dev, "home")
                 THEN \E ch \in Codes(1), w \in WriteOutcomes :
                        TvCommand(normalized_room, device_name, TV_home(dev, ch), w,
                                  NAVIGATE_OK, NAVIGATE_FAILED)
                 ELSE Return(DEVICES, <<>>, <<>>, NAVIGATE_NOT_SUPPORTED)
        ELSE Return(DEVICES, <<>>, <<>>, NOT_FOUND)

(***************************************************************************)
(* The search tools.                                                       *)
(***************************************************************************)
SEARCH_PLAY_OK == "Searching and playing query on app..."

SEARCH_PLAY_FAILED == "Failed to search and play query on app. Connection issue."

SEARCH_PLAY_NOT_SUPPORTED == "Device does not support search and play functionality."

SEARCH_OK == "Searching for query on app. Use TV remote to select what to play."

SEARCH_FAILED == "Failed to search for query on app. Connection issue."

SEARCH_NOT_SUPPORTED == "Device does not support search functionality."

tv_search_and_play(room, device_name, query, app) ==
    LET normalized_room == NormalizedRoom[room]
    IN  IF Has(DEVICES, normalized_room, device_name)
        THEN LET dev == DEVICES[normalized_room][device_name]
             IN  IF hasattr(dev, "search_and_play")
                 THEN \E ch \in SearchCodes, w \in WriteOutcomes :
                        TvCommand(normalized_room, device_name,
                                  TV_search_and_play(dev, ch, CleanedOf[query], LowerOf[app]),
                                  w, SEARCH_PLAY_OK, SEARCH_PLAY_FAILED)
                 ELSE Return(DEVICES, <<>>, <<>>, SEARCH_PLAY_NOT_SUPPORTED)
        ELSE Return(DEVICES, <<>>, <<>>, NOT_FOUND)

tv_search_content(room, device_name, query, app) ==
    LET normalized_room == NormalizedRoom[room]
    IN  IF Has(DEVICES, normalized_room, device_name)
        THEN LET dev == DEVICES[normalized_room][device_name]
             IN  IF hasattr(dev, "search_content")
                 THEN \E ch \in SearchCodes, w \in WriteOutcomes :
                        TvCommand(normalized_room, device_name,
                                  TV_search_content(dev, ch, CleanedOf[query], LowerOf[app]),
                                  w, SEARCH_OK, SEARCH_FAILED)
                 ELSE Return(DEVICES, <<>>, <<>>, SEARCH_NOT_SUPPORTED)
        ELSE Return(DEVICES, <<>>, <<>>, NOT_FOUND)

TEXT_SENT == "Sent text to TV."

TEXT_FAILED == "Failed to send text to TV. Connection issue."

TEXT_NOT_SUPPORTED == "Device does not support text input."

tv_send_text(room, device_name, text) ==
    LET normalized_room == NormalizedRoom[room]
    IN  IF Has(DEVICES, normalized_room, device_name)
        THEN LET dev == DEVICES[normalized_room][device_name]
             IN  IF hasattr(dev, "send_text")
                 THEN \E ch \in Codes(1), w \in WriteOutcomes :
                        TvCommand(normalized_room, device_name,
                                  TV_send_text(dev, ch, CleanedOf[text]), w,
                                  TEXT_SENT, TEXT_FAILED)
                 ELSE Return(DEVICES, <<>>, <<>>, TEXT_NOT_SUPPORTED)
        ELSE Return(DEVICES, <<>>, <<>>, NOT_FOUND)

KEY_PRESSED == "Pressed key on TV remote."

KEY_FAILED == "Failed to press key. Connection issue."

KEY_NOT_SUPPORTED == "Device does not support key press functionality."

(* every registered device taken for a television *)
tv_press_key_unguarded(room, device_name, key) ==
    LET normalized_room == NormalizedRoom[room]
    IN  IF Has(DEVICES, normalized_room, device_name)
        THEN \E w \in WriteOutcomes :
                SaveAndReturn(DEVICES, <<>>, <<>>, w, KEY_PRESSED, RAISED)
        ELSE Return(DEVICES, <<>>, <<>>, NOT_FOUND)

tv_press_key(room, device_name, key) ==
    LET normalized_room == NormalizedRoom[room]
    IN  IF Has(DEVICES, normalized_room, device_name)
        THEN LET dev == DEVICES[normalized_room][device_name]
             IN  IF hasattr(dev, "press_key")
                 THEN \E ch \in Codes(1), w \in WriteOutcomes :
                        TvCommand(normalized_room, device_name,
                                  TV_press_key(dev, ch, LowerOf[key]), w,
                                  KEY_PRESSED, KEY_FAILED)
                 ELSE Return(DEVICES, <<>>, <<>>, KEY_NOT_SUPPORTED)
        ELSE Return(DEVICES, <<>>, <<>>, NOT_FOUND)

(***************************************************************************)
(* The tools that only read.  What a device method gives back is stored,   *)
(* as the method works on the registered object.                           *)
(***************************************************************************)
ReadOnly(D, calls, answer) ==
    /\ DEVICES' = D
    /\ sent' = calls
    /\ published' = <<>>
    /\ result' = answer
    /\ wrote' = "none"
    /\ UNCHANGED <<devices_json, tv_config_json, mqtt_enabled, fault_budget, threads>>
    /\ television' = Signalled(television, sent')

ALL_STATES == "json of all devices"

get_all_states == ReadOnly(DEVICES, <<>>, [text |-> ALL_STATES, json |-> state_dict(DEVICES)])

CONNECTED == "TV connection is active. Status: json of the state"

NOT_CONNECTED == "TV is not connected. Make sure TV is on, ADB is enabled, and IP is correct."

(* the call is recorded with what the subprocess ended in *)
check_tv_connection(room, device_name) ==
    LET normalized_room == NormalizedRoom[room]
    IN  IF Has(DEVICES, normalized_room, device_name)
        THEN LET dev == DEVICES[normalized_room][device_name]
             IN  IF hasattr(dev, "check_connection")
                 THEN \E outcome \in AdbOutcomes :
                        LET r == TV_check_connection(dev, <<send_adb_command(outcome)>>)
                        IN  ReadOnly([DEVICES EXCEPT ![normalized_room][device_name] = r.dev],
                                     <<r.sent[1] @@ [outcome |-> outcome]>>,
                                     IF r.ret THEN [text |-> CONNECTED, json |-> r.dev.state]
                                     ELSE [text |-> NOT_CONNECTED])
                 ELSE Return(DEVICES, <<>>, <<>>, NOT_A_TV)
        ELSE Return(DEVICES, <<>>, <<>>, NOT_FOUND)

TvKeys(D) == {key \in UNION {{<<room, n>> : n \in DOMAIN D[room]} : room \in DOMAIN D} :
                hasattr(D[key[1]][key[2]], "ip_address")}

(* check_connection() on every television, ok[key] its return value *)
RECURSIVE CheckAll(_, _, _)
CheckAll(D, keys, ok) ==
    IF keys = {} THEN [D |-> D, sent |-> <<>>]
    ELSE LET key == CHOOSE k \in keys : TRUE
             r == TV_check_connection(D[key[1]][key[2]], <<ok[key]>>)
             rest == CheckAll([D EXCEPT ![key[1]][key[2]] = r.dev], keys \ {key}, ok)
         IN  [D |-> rest.D, sent |-> r.sent \o rest.sent]

NO_TVS == "No TV devices configured. Use add_tv_device to add one."

TV_LIST == "TV Devices: json of the list"

tv_info(D, key, connected) ==
    LET device == D[key[1]][key[2]]
    IN  [room |-> key[1], name |-> key[2], ip_address |-> device.ip_address,
         port |-> device.port, status |-> connected,
         current_app |-> IF "current_app" \in DOMAIN device.state
                         THEN device.state.current_app ELSE "unknown",
         volume |-> IF "volume" \in DOMAIN device.state THEN device.state.volume ELSE 0,
         muted |-> IF "muted" \in DOMAIN device.state THEN device.state.muted ELSE FALSE]

list_tv_devices ==
    IF TvKeys(DEVICES) = {} THEN Return(DEVICES, <<>>, <<>>, NO_TVS)
    ELSE \E ok \in [TvKeys(DEVICES) -> BOOLEAN] :
            LET r == CheckAll(DEVICES, TvKeys(DEVICES), ok)
            IN  ReadOnly(r.D, r.sent,
                         [text |-> TV_LIST,
                          json |-> {tv_info(r.D, key, ok[key]) : key \in TvKeys(DEVICES)}])

NOT_A_TV_DEVICE == "Device is not a TV device."

NOT_FOUND_DIAGNOSE == "Device not found in room (diagnosis)."

DIAGNOSIS == "Diagnosing TV: the lines of the tests"

PingOutcomes == {"returncode 0", "returncode 1", "raised"}

(* The ping decides whether the other tests run; of the other tests only
   check_connection() goes through the device, and the lines of the connect
   and package tests are left out of the answer. *)
diagnose_tv_connection(room, device_name) ==
    LET normalized_room == NormalizedRoom[room]
    IN  IF Has(DEVICES, normalized_room, device_name)
        THEN LET dev == DEVICES[normalized_room][device_name]
             IN  IF hasattr(dev, "ip_address")
                 THEN \E ping \in PingOutcomes, ch \in Codes(1) :
                        IF ping = "returncode 1"
                        THEN ReadOnly(DEVICES, <<>>, [text |-> DIAGNOSIS, reachable |-> FALSE])
                        ELSE LET r == TV_check_connection(dev, ch)
                             IN  ReadOnly([DEVICES EXCEPT ![normalized_room][device_name] = r.dev],
                                          r.sent,
                                          [text |-> DIAGNOSIS, reachable |-> ping = "returncode 0",
                                           responsive |-> r.ret])
                 ELSE Return(DEVICES, <<>>, <<>>, NOT_A_TV_DEVICE)
        ELSE Return(DEVICES, <<>>, <<>>, NOT_FOUND_DIAGNOSE)

(***************************************************************************)
(* The configuration tools.                                                *)
(***************************************************************************)
INVALID_IP == "Invalid IP address format"

INVALID_PORT == "Invalid port number. Must be between 1-65535"

ALREADY_EXISTS == "Device already exists in room. Use update_tv_config to modify it."

TV_ADDED == "TV added to room."

ADD_FAILED == "Failed to add TV device"

TV_NOT_FOUND_UPDATE == "TV device not found in room. Use add_tv_device to create it first."

TV_UPDATED == "TV updated."

UPDATE_FAILED == "Failed to update TV configuration"

TV_NOT_FOUND == "TV device not found in room."

TV_REMOVED == "TV device removed from room."

REMOVE_FAILED == "Failed to remove TV device"

(* the tail shared by add_tv_device and update_tv_config: save_state(), then
   check_connection(), inside try/except Exception *)
SaveAndCheck(D, tv, ch, w, ok_msg, failed_msg) ==
    LET files == save_state(D, w)
        check == TV_check_connection(tv, ch)
    IN  /\ DEVICES' = D
        /\ devices_json' = files.devices_json
        /\ tv_config_json' = files.tv_config_json
        /\ published' = <<>>
        /\ wrote' = IF files.raised THEN "failed" ELSE "ok"
        /\ fault_budget' = IF w = "ok" THEN fault_budget ELSE fault_budget - 1
        /\ sent' = IF files.raised THEN <<>> ELSE check.sent
        /\ result' = IF files.raised THEN [text |-> failed_msg]
                     ELSE [text |-> ok_msg, connected |-> check.ret]
        /\ files.raised => ch[1]
        /\ UNCHANGED <<mqtt_enabled, threads>>
        /\ television' = Signalled(television, sent')

(* the television filed under the room as the caller wrote it *)
add_tv_device_as_written(room, device_name, ip_address, port) ==
    LET with_room == SetDefaultRoom(DEVICES, room)
        new_tv == TV(device_name, room, ip_address, port)
    IN  IF ~IpMatches[ip_address] THEN Return(DEVICES, <<>>, <<>>, INVALID_IP)
        ELSE IF ~port_in_range(port) THEN Return(DEVICES, <<>>, <<>>, INVALID_PORT)
        ELSE IF device_name \in DOMAIN with_room[room]
        THEN Return(with_room, <<>>, <<>>, ALREADY_EXISTS)
        ELSE \E ch \in Codes(1), w \in WriteOutcomes :
                SaveAndCheck(Put(with_room, room, device_name, new_tv), new_tv,
                             ch, w, TV_ADDED, ADD_FAILED)

add_tv_device(room, device_name, ip_address, port) ==
    LET normalized_room == NormalizedRoom[room]
        with_room == SetDefaultRoom(DEVICES, normalized_room)
        new_tv == TV(device_name, normalized_room, ip_address, port)
    IN  IF ~IpMatches[ip_address] THEN Return(DEVICES, <<>>, <<>>, INVALID_IP)
        ELSE IF ~port_in_range(port) THEN Return(DEVICES, <<>>, <<>>, INVALID_PORT)
        ELSE IF device_name \in DOMAIN with_room[normalized_room]
        THEN Return(with_room, <<>>, <<>>, ALREADY_EXISTS)
        ELSE \E ch \in Codes(1), w \in WriteOutcomes :
                SaveAndCheck(Put(with_room, normalized_room, device_name, new_tv), new_tv,
                             ch, w, TV_ADDED, ADD_FAILED)

update_tv_config(room, device_name, ip_address, port) ==
    LET normalized_room == NormalizedRoom[room]
    IN  IF ~Has(DEVICES, normalized_room, device_name)
        THEN Return(DEVICES, <<>>, <<>>, TV_NOT_FOUND_UPDATE)
        ELSE IF ~IpMatches[ip_address] THEN Return(DEVICES, <<>>, <<>>, INVALID_IP)
        ELSE IF ~port_in_range(port) THEN Return(DEVICES, <<>>, <<>>, INVALID_PORT)
        ELSE IF ~hasattr(DEVICES[normalized_room][device_name], "ip_address")
        THEN Return(DEVICES, <<>>, <<>>, NOT_A_TV_DEVICE)
        ELSE LET existing_tv == [DEVICES[normalized_room][device_name]
                                    EXCEPT !.ip_address = ip_address, !.port = port]
             IN  \E ch \in Codes(1), w \in WriteOutcomes :
                    SaveAndCheck([DEVICES EXCEPT ![normalized_room][device_name] = existing_tv],
                                 existing_tv, ch, w, TV_UPDATED, UPDATE_FAILED)

(* the snapshot rewritten before the lookup decides *)
remove_tv_device_saving(room, device_name) ==
    LET normalized_room == NormalizedRoom[room]
    IN  IF ~Has(DEVICES, normalized_room, device_name)
        THEN SaveAndReturn(DEVICES, <<>>, <<>>, "ok", TV_NOT_FOUND, REMOVE_FAILED)
        ELSE IF ~hasattr(DEVICES[normalized_room][device_name], "ip_address")
        THEN Return(DEVICES, <<>>, <<>>, NOT_A_TV_DEVICE)
        ELSE \E w \in WriteOutcomes :
                SaveAndReturn(Del(DEVICES, normalized_room, device_name), <<>>, <<>>, w,
                              TV_REMOVED, REMOVE_FAILED)

remove_tv_device(room, device_name) ==
    LET normalized_room == NormalizedRoom[room]
    IN  IF ~Has(DEVICES, normalized_room, device_name)
        THEN Return(DEVICES, <<>>, <<>>, TV_NOT_FOUND)
        ELSE IF ~hasattr(DEVICES[normalized_room][device_name], "ip_address")
        THEN Return(DEVICES, <<>>, <<>>, NOT_A_TV_DEVICE)
        ELSE \E w \in WriteOutcomes :
                SaveAndReturn(Del(DEVICES, normalized_room, device_name), <<>>, <<>>, w,
                              TV_REMOVED, REMOVE_FAILED)

(***************************************************************************)
(* Start of the server process: the registry is seeded, the broker is      *)
(* tried and the television endpoints are reloaded.                        *)
(***************************************************************************)
STARTED == "server started"

STARTUP_RAISED == "the module raised while it was loaded"

load_tv_config == json_load(tv_config_json)

NO_CONFIG_FILE == "No TV configuration file found."

CONFIG_LOADED == "TV Configuration loaded."

LOAD_FAILED == "Failed to load TV configurations"

(* the entry replaces whatever device holds the name *)
RECURSIVE ConfigureDevices_replacing(_, _, _, _)
ConfigureDevices_replacing(acc, normalized_room, devices, names) ==
    IF names = {} THEN acc
    ELSE LET device_name == CHOOSE n \in names : TRUE
             config == devices[device_name]
             port == IF "port" \in DOMAIN config THEN config.port ELSE DEFAULT_PORT
             next ==
                 IF "ip_address" \notin DOMAIN config
                 THEN [acc EXCEPT !.errors = @ + 1]
                 ELSE [acc EXCEPT
                         !.D = Put(acc.D, normalized_room, device_name,
                                   TV(device_name, normalized_room, config.ip_address, port)),
                         !.added = @ + 1]
         IN  ConfigureDevices_replacing(next, normalized_room, devices, names \ {device_name})

(* the inner loop of load_tv_configs_from_file; acc holds the registry and the
   three counts of the report *)
RECURSIVE ConfigureDevices(_, _, _, _)
ConfigureDevices(acc, normalized_room, devices, names) ==
    IF names = {} THEN acc
    ELSE LET device_name == CHOOSE n \in names : TRUE
             config == devices[device_name]
             port == IF "port" \in DOMAIN config THEN config.port ELSE DEFAULT_PORT
             next ==
                 IF "ip_address" \notin DOMAIN config
                 THEN [acc EXCEPT !.errors = @ + 1]
                 ELSE IF device_name \in DOMAIN acc.D[normalized_room]
                 THEN IF hasattr(acc.D[normalized_room][device_name], "ip_address")
                      THEN [acc EXCEPT
                              !.D[normalized_room][device_name].ip_address = config.ip_address,
                              !.D[normalized_room][device_name].port = port,
                              !.updated = @ + 1]
                      ELSE [acc EXCEPT !.errors = @ + 1]
                 ELSE [acc EXCEPT
                         !.D = Put(acc.D, normalized_room, device_name,
                                   TV(device_name, normalized_room, config.ip_address, port)),
                         !.added = @ + 1]
         IN  ConfigureDevices(next, normalized_room, devices, names \ {device_name})

(* the outer loop: devices.items() of a room whose value is no mapping raises
   and ends the loop *)
RECURSIVE ConfigureRooms(_, _, _)
ConfigureRooms(acc, configs, rooms) ==
    IF rooms = {} THEN acc
    ELSE LET room == CHOOSE r \in rooms : TRUE
             normalized_room == NormalizedRoom[room]
             with_room == [acc EXCEPT !.D = SetDefaultRoom(acc.D, normalized_room)]
         IN  IF ~IsMapping(configs[room]) THEN [with_room EXCEPT !.raised = TRUE]
             ELSE ConfigureRooms(ConfigureDevices(with_room, normalized_room, configs[room],
                                                  DOMAIN configs[room]),
                                 configs, rooms \ {room})

load_tv_configs_from_file ==
    LET configs == load_tv_config
        acc == ConfigureRooms([D |-> DEVICES, added |-> 0, updated |-> 0, errors |-> 0,
                               raised |-> FALSE], configs, DOMAIN configs)
    IN  IF configs = EmptyDict THEN Return(DEVICES, <<>>, <<>>, NO_CONFIG_FILE)
        ELSE IF ~IsMapping(configs) THEN Return(DEVICES, <<>>, <<>>, LOAD_FAILED)
        ELSE IF acc.raised THEN Return(acc.D, <<>>, <<>>, LOAD_FAILED)
        ELSE \E w \in WriteOutcomes :
                LET files == save_state(acc.D, w)
                IN  /\ DEVICES' = acc.D
                    /\ devices_json' = files.devices_json
                    /\ tv_config_json' = files.tv_config_json
                    /\ wrote' = IF files.raised THEN "failed" ELSE "ok"
                    /\ fault_budget' = IF w = "ok" THEN fault_budget ELSE fault_budget - 1
                    /\ result' = IF files.raised THEN [text |-> LOAD_FAILED]
                                 ELSE [text |-> CONFIG_LOADED, added |-> acc.added,
                                       updated |-> acc.updated, errors |-> acc.errors]
                    /\ sent' = <<>>
                    /\ published' = <<>>
                    /\ television' = Signalled(television, sent')
                    /\ UNCHANGED <<mqtt_enabled, threads>>

Startup(configs, broker_available) ==
    /\ DEVICES' = initialize_tv_configs(SeedDevices, configs)
    /\ mqtt_enabled' = broker_available
    /\ result' = [text |-> IF initialize_raises(configs) THEN STARTUP_RAISED ELSE STARTED]
    /\ wrote' = "none"
    /\ sent' = <<>>
    /\ published' = <<>>

Restart(broker_available) ==
    /\ Startup(load_tv_config, broker_available)
    /\ UNCHANGED <<devices_json, tv_config_json, fault_budget, threads, television>>

(***************************************************************************)
(* The hub with its seeded simple devices and no television.               *)
(***************************************************************************)
StartedWith(configs, budget, broker_available, sets) ==
    /\ television = sets
    /\ tv_config_json = configs
    /\ DEVICES = initialize_tv_configs(SeedDevices, json_load(configs))
    /\ devices_json = EmptyDict
    /\ mqtt_enabled = broker_available
    /\ result = [text |-> IF initialize_raises(json_load(configs)) THEN STARTUP_RAISED
                          ELSE STARTED]
    /\ wrote = "none"
    /\ sent = <<>>
    /\ published = <<>>
    /\ fault_budget = budget
    /\ threads = [t \in Threads |-> Idle]

Started(configs, budget, broker_available) ==
    StartedWith(configs, budget, broker_available, EmptyDict)

Init == \E broker_available \in BOOLEAN : Started(EmptyDict, 0, broker_available)

Next ==
    \/ \E t \in SimpleTargets : turn_on_device(t[1], t[2])
    \/ \E t \in SimpleTargets : turn_off_device(t[1], t[2])
    \/ \E t \in SimpleTargets, key \in Keys, value \in Values :
            set_device_value(t[1], t[2], key, value)
    \/ \E t \in SimpleTargets : get_device_state(t[1], t[2])
    \/ \E t \in SimpleTargets : tv_volume_up(t[1], t[2])
    \/ \E t \in SimpleTargets : tv_volume_down(t[1], t[2])
    \/ \E t \in SimpleTargets : tv_mute(t[1], t[2])
    \/ \E t \in SimpleTargets, app \in Apps : tv_open_app(t[1], t[2], app)
    \/ \E t \in SimpleTargets, direction \in Directions : tv_navigate(t[1], t[2], direction)
    \/ \E t \in {<<"Lounge ", "light3">>}, ip_address \in Addresses, port \in Ports :
            add_tv_device(t[1], t[2], ip_address, port)
    \/ \E t \in SimpleTargets, ip_address \in Addresses, port \in Ports :
            update_tv_config(t[1], t[2], ip_address, port)
    \/ \E t \in SimpleTargets : remove_tv_device(t[1], t[2])
    \/ \E broker_available \in BOOLEAN : Restart(broker_available)

Spec == Init /\ [][Next]_vars

(***************************************************************************)
(* The hub with a television in the living room.                           *)
(***************************************************************************)
InitTV == \E configs \in {EmptyDict, TV_CONFIG_EXAMPLE} : Started(configs, 0, TRUE)

NextTV ==
    \/ \E t \in TvTargets : turn_on_device(t[1], t[2])
    \/ \E t \in TvTargets : turn_off_device(t[1], t[2])
    \/ \E t \in TvTargets, key \in Keys, value \in Values :
            set_device_value(t[1], t[2], key, value)
    \/ \E t \in TvTargets : get_device_state(t[1], t[2])
    \/ \E t \in TvTargets : tv_volume_up(t[1], t[2])
    \/ \E t \in TvTargets : tv_volume_down(t[1], t[2])
    \/ \E t \in TvTargets : tv_mute(t[1], t[2])
    \/ \E t \in TvTargets, app \in Apps : tv_open_app(t[1], t[2], app)
    \/ \E t \in TvTargets, direction \in Directions : tv_navigate(t[1], t[2], direction)
    \/ \E t \in TvTargets, ip_address \in Addresses, port \in Ports :
            add_tv_device(t[1], t[2], ip_address, port)
    \/ \E t \in TvTargets, ip_address \in Addresses, port \in Ports :
            update_tv_config(t[1], t[2], ip_address, port)
    \/ \E t \in TvTargets : remove_tv_device(t[1], t[2])
    \/ Restart(TRUE)

SpecTV == InitTV /\ [][NextTV]_vars

(***************************************************************************)
(* The hub on a disk whose writes may fail.                                *)
(***************************************************************************)
InitFaulty == \E broker_available \in BOOLEAN : Started(EmptyDict, MaxFaults, broker_available)

NextFaulty ==
    \/ \E t \in FaultyTargets : turn_on_device(t[1], t[2])
    \/ \E t \in FaultyTargets : turn_off_device(t[1], t[2])
    \/ \E t \in FaultyTargets, key \in Keys, value \in Values :
            set_device_value(t[1], t[2], key, value)
    \/ \E t \in FaultyTargets : tv_mute(t[1], t[2])
    \/ \E t \in FaultyTargets, ip_address \in Addresses, port \in Ports :
            add_tv_device(t[1], t[2], ip_address, port)
    \/ \E t \in FaultyTargets, ip_address \in Addresses, port \in Ports :
            update_tv_config(t[1], t[2], ip_address, port)
    \/ \E t \in FaultyTargets : remove_tv_device(t[1], t[2])
    \/ \E broker_available \in BOOLEAN : Restart(broker_available)

SpecFaulty == InitFaulty /\ [][NextFaulty]_vars

(***************************************************************************)
(* The configuration tools on a hub started from an edited tv_config.json. *)
(***************************************************************************)
InitConfig == \E configs \in ConfigFiles : Started(configs, 0, TRUE)

NextConfig ==
    \/ \E t \in AddTargets, ip_address \in ConfigAddresses, port \in ConfigPorts :
            add_tv_device(t[1], t[2], ip_address, port)
    \/ \E t \in ConfigTargets, ip_address \in ConfigAddresses, port \in ConfigPorts :
            update_tv_config(t[1], t[2], ip_address, port)
    \/ \E t \in ConfigTargets : remove_tv_device(t[1], t[2])
    \/ Restart(TRUE)

SpecConfig == InitConfig /\ [][NextConfig]_vars

(***************************************************************************)
(* The search tools on a hub with a television in the living room.         *)
(***************************************************************************)
InitSearch == Started(TV_CONFIG_EXAMPLE, 0, TRUE)

NextSearch ==
    \/ \E t \in SearchTargets, query \in Queries, app \in SearchApps :
            tv_search_and_play(t[1], t[2], query, app)
    \/ \E t \in SearchTargets, query \in Queries, app \in SearchApps :
            tv_search_content(t[1], t[2], query, app)
    \/ \E t \in SearchTargets, text \in Texts : tv_send_text(t[1], t[2], text)
    \/ Restart(TRUE)

SpecSearch == InitSearch /\ [][NextSearch]_vars

(***************************************************************************)
(* set_device_value on every kind of device.                               *)
(***************************************************************************)
InitValues == \E broker_available \in BOOLEAN : Started(TV_CONFIG_EXAMPLE, 0, broker_available)

NextValues ==
    \E t \in ValueTargets, key \in ValueKeys, value \in ValueValues :
        set_device_value(t[1], t[2], key, value)

SpecValues == InitValues /\ [][NextValues]_vars

(***************************************************************************)
(* The hub started from a tv_config.json with malformed parts.  A process  *)
(* whose module raised serves no tool until it is started again.           *)
(***************************************************************************)
CONFIG_NO_ADDRESS ==
    [livingroom |-> [tv |-> [port |-> 5555], tv2 |-> [ip_address |-> "10.0.0.7"]]]

CONFIG_RECORD_NOT_MAPPING ==
    [livingroom |-> [tv |-> JsonScalar("192.168.1.14"), tv2 |-> [ip_address |-> "10.0.0.7"]]]

CONFIG_ROOM_NOT_MAPPING ==
    [bedroom |-> JsonScalar("tv"),
     livingroom |-> [tv |-> [ip_address |-> "192.168.1.14", port |-> 5555]]]

StartupFiles ==
    {TV_CONFIG_EXAMPLE, CONFIG_NO_ADDRESS, CONFIG_RECORD_NOT_MAPPING, CONFIG_ROOM_NOT_MAPPING,
     UNPARSEABLE}

StartupTargets == {<<"livingroom", "tv">>, <<"livingroom", "tv2">>}

EditConfig(content) ==
    /\ tv_config_json' = content
    /\ UNCHANGED <<DEVICES, devices_json, mqtt_enabled, result, wrote, sent, published,
                   fault_budget, threads, television>>

Running == result.text # STARTUP_RAISED

InitStartup == \E content \in StartupFiles : Started(content, 0, TRUE)

NextStartup ==
    \/ \E content \in StartupFiles : EditConfig(content)
    \/ Restart(TRUE)
    \/ Running /\ \E t \in StartupTargets : tv_mute(t[1], t[2])
    \/ Running /\ \E t \in StartupTargets : get_device_state(t[1], t[2])
    \/ Running /\ \E t \in StartupTargets : remove_tv_device(t[1], t[2])

SpecStartup == InitStartup /\ [][NextStartup]_vars

(***************************************************************************)
(* The hub with two televisions, in the living room and in the bedroom.    *)
(***************************************************************************)
TWO_TVS ==
    [bedroom |-> [tv2 |-> [ip_address |-> "10.0.0.7", port |-> 5556]],
     livingroom |-> [tv |-> [ip_address |-> "192.168.1.14", port |-> 5555]]]

HomeTargets ==
    {<<"livingroom", "tv">>, <<"bedroom", "tv2">>, <<"livingroom", "light3">>,
     <<"attic", "tv">>}

InitHome == Started(TWO_TVS, 0, TRUE)

NextHome ==
    \/ \E t \in HomeTargets : turn_on_device(t[1], t[2])
    \/ \E t \in HomeTargets : turn_off_device(t[1], t[2])
    \/ \E t \in HomeTargets, value \in Values : set_device_value(t[1], t[2], "power", value)
    \/ \E t \in HomeTargets : tv_mute(t[1], t[2])
    \/ \E t \in HomeTargets : get_device_state(t[1], t[2])
    \/ get_all_states
    \/ list_tv_devices
    \/ \E t \in HomeTargets : check_tv_connection(t[1], t[2])
    \/ \E t \in HomeTargets : diagnose_tv_connection(t[1], t[2])

SpecHome == InitHome /\ [][NextHome]_vars

(***************************************************************************)
(* The volume tools on a television that comes and goes.                   *)
(***************************************************************************)
InitVolume == \E configs \in {EmptyDict, TV_CONFIG_EXAMPLE} : Started(configs, 0, TRUE)

NextVolume ==
    \/ \E t \in TvTargets : tv_volume_up(t[1], t[2])
    \/ \E t \in TvTargets : tv_volume_down(t[1], t[2])
    \/ \E t \in TvTargets, value \in Values : set_device_value(t[1], t[2], "volume", value)
    \/ add_tv_device("livingroom", "tv", "192.168.1.14", 5555)
    \/ remove_tv_device("livingroom", "tv")
    \/ Restart(TRUE)

SpecVolume == InitVolume /\ [][NextVolume]_vars

(***************************************************************************)
(* The tools that send an app launch or a key to a television.             *)
(***************************************************************************)
InitApps == Started(TV_CONFIG_EXAMPLE, 0, TRUE)

NextApps ==
    \/ \E t \in TvTargets, app \in Apps : tv_open_app(t[1], t[2], app)
    \/ \E t \in TvTargets, direction \in Directions : tv_navigate(t[1], t[2], direction)
    \/ \E t \in TvTargets, key \in PressKeys : tv_press_key(t[1], t[2], key)
    \/ \E t \in TvTargets : tv_mute(t[1], t[2])
    \/ add_tv_device("livingroom", "tv", "192.168.1.14", 5555)
    \/ remove_tv_device("livingroom", "tv")
    \/ Restart(TRUE)

SpecApps == InitApps /\ [][NextApps]_vars

(***************************************************************************)
(* The television tools on the seeded simple devices.                      *)
(***************************************************************************)
TvToolTargets == {<<"livingroom", "fan1">>, <<"Lounge ", "light3">>, <<"livingroom", "light3">>}

InitSimple == Started(EmptyDict, 0, TRUE)

NextSimple ==
    \/ \E t \in TvToolTargets : turn_on_device(t[1], t[2])
    \/ \E t \in TvToolTargets : turn_off_device(t[1], t[2])
    \/ \E t \in TvToolTargets, key \in Keys, value \in Values :
            set_device_value(t[1], t[2], key, value)
    \/ \E t \in TvToolTargets : tv_volume_up(t[1], t[2])
    \/ \E t \in TvToolTargets : tv_volume_down(t[1], t[2])
    \/ \E t \in TvToolTargets : tv_mute(t[1], t[2])
    \/ \E t \in TvToolTargets, query \in Queries, app \in SearchApps :
            tv_search_and_play(t[1], t[2], query, app)
    \/ \E t \in TvToolTargets, query \in Queries, app \in SearchApps :
            tv_search_content(t[1], t[2], query, app)
    \/ \E t \in TvToolTargets, text \in Texts : tv_send_text(t[1], t[2], text)
    \/ \E t \in TvToolTargets, key \in PressKeys : tv_press_key(t[1], t[2], key)
    \/ \E t \in TvToolTargets : check_tv_connection(t[1], t[2])
    \/ \E t \in TvToolTargets, ip_address \in Addresses, port \in Ports :
            update_tv_config(t[1], t[2], ip_address, port)
    \/ \E t \in TvToolTargets : remove_tv_device(t[1], t[2])

SpecSimple == InitSimple /\ [][NextSimple]_vars

(***************************************************************************)
(* The power tools on a television set whose actual power is followed.     *)
(***************************************************************************)
PowerTargets == {<<"livingroom", "tv">>, <<"livingroom", "light3">>, <<"bedroom", "ac1">>}

InitPower == StartedWith(TV_CONFIG_EXAMPLE, 0, TRUE, [ip_address \in {"192.168.1.14"} |-> "off"])

NextPower ==
    \/ \E t \in PowerTargets : turn_on_device(t[1], t[2])
    \/ \E t \in PowerTargets : turn_off_device(t[1], t[2])
    \/ \E t \in PowerTargets : tv_mute(t[1], t[2])

SpecPower == InitPower /\ [][NextPower]_vars

(***************************************************************************)
(* Tool calls on worker threads.  The handlers take no lock, so a call is  *)
(* a sequence of steps, one per access to the registry or to the disk,     *)
(* and the steps of two calls interleave freely.                           *)
(***************************************************************************)
ConcurrentCalls ==
    {[op |-> "tv_volume_up", room |-> "livingroom", device_name |-> "tv"],
     [op |-> "tv_mute", room |-> " Hall", device_name |-> "tv"],
     [op |-> "turn_on_device", room |-> "livingroom", device_name |-> "light3"],
     [op |-> "turn_on_device", room |-> "livingroom", device_name |-> "fan1"],
     [op |-> "set_device_value", room |-> "Lounge ", device_name |-> "light3",
      key |-> "brightness", value |-> "75"]}

(* the room key the handler of call c looks up *)
CallRoom(c) ==
    IF c.op \in {"turn_on_device", "turn_off_device"} THEN c.room ELSE NormalizedRoom[c.room]

OkMessage(c) ==
    CASE c.op = "tv_volume_up" -> VOLUME_UP_OK
      [] c.op = "tv_mute" -> MUTE_OK
      [] c.op = "turn_on_device" -> NOW_ON
      [] c.op = "turn_off_device" -> NOW_OFF
      [] c.op = "set_device_value" -> VALUE_SET

FailedMessage(c) ==
    CASE c.op = "tv_volume_up" -> VOLUME_UP_FAILED
      [] c.op = "tv_mute" -> MUTE_FAILED

(* one state dict shared by all devices, as a class attribute would be *)
SetItem_shared(D, room, device_name, key, value) ==
    [r \in DOMAIN D |-> [n \in DOMAIN D[r] |->
        IF key \in DOMAIN D[r][n].state THEN [D[r][n] EXCEPT !.state[key] = value]
        ELSE D[r][n]]]

(* self.state[key] = value *)
SetItem(D, room, device_name, key, value) ==
    [D EXCEPT ![room][device_name].state[key] = value]

Goto(t, label) ==
    /\ threads' = [threads EXCEPT ![t].pc = label]

Finish(t, msg) ==
    /\ threads' = [threads EXCEPT ![t].pc = "done", ![t].result = [text |-> msg]]

Invoke(t, c) ==
    /\ threads[t].pc = "idle"
    /\ threads' = [threads EXCEPT ![t].pc = "resolve", ![t].call = c]
    /\ UNCHANGED <<DEVICES, devices_json, tv_config_json, mqtt_enabled, result, wrote, sent,
                   published, fault_budget, television>>

(* the lookup in DEVICES and the hasattr() test *)
Resolve(t) ==
    LET c == threads[t].call
        room == CallRoom(c)
    IN  /\ threads[t].pc = "resolve"
        /\ IF ~Has(DEVICES, room, c.device_name) THEN Finish(t, NOT_FOUND)
           ELSE LET dev == DEVICES[room][c.device_name]
                IN  CASE c.op = "tv_volume_up" ->
                            IF hasattr(dev, "volume_up") THEN Goto(t, "channel")
                            ELSE Finish(t, NOT_A_TV)
                      [] c.op = "tv_mute" ->
                            IF hasattr(dev, "mute") THEN Goto(t, "channel")
                            ELSE Finish(t, NOT_A_TV)
                      [] c.op \in {"turn_on_device", "turn_off_device"} ->
                            IF dev.cls = "TV" THEN Goto(t, "channel") ELSE Goto(t, "store")
                      [] c.op = "set_device_value" ->
                            IF hasattr(dev, "set_" \o c.key) THEN Goto(t, "store")
                            ELSE Finish(t, NOT_SUPPORTED)
        /\ UNCHANGED <<DEVICES, devices_json, tv_config_json, mqtt_enabled, result, wrote, sent,
                       published, fault_budget, television>>

(* success = self._send_adb_command(...) *)
ChannelCall(t) ==
    LET c == threads[t].call
    IN  /\ threads[t].pc = "channel"
        /\ \E ok \in BOOLEAN :
            threads' = [threads EXCEPT
                ![t].success = ok,
                ![t].pc = IF c.op \in {"turn_on_device", "turn_off_device"}
                          THEN (IF ok THEN "store" ELSE "open")
                          ELSE (IF ok THEN "load" ELSE "done"),
                ![t].result = IF ok \/ c.op \in {"turn_on_device", "turn_off_device"}
                              THEN @ ELSE [text |-> FailedMessage(c)]]
        /\ UNCHANGED <<DEVICES, devices_json, tv_config_json, mqtt_enabled, result, wrote, sent,
                       published, fault_budget, television>>

(* the read of self.state["volume"] / self.state["muted"] on the right-hand side *)
Load(t) ==
    LET c == threads[t].call
        state == DEVICES[CallRoom(c)][c.device_name].state
    IN  /\ threads[t].pc = "load"
        /\ threads' = [threads EXCEPT ![t].pc = "store", ![t].volume = state.volume,
                                      ![t].muted = state.muted]
        /\ UNCHANGED <<DEVICES, devices_json, tv_config_json, mqtt_enabled, result, wrote, sent,
                       published, fault_budget, television>>

(* the store into self.state *)
Store(t) ==
    LET c == threads[t].call
        room == CallRoom(c)
        is_tv == DEVICES[room][c.device_name].cls = "TV"
    IN  /\ threads[t].pc = "store"
        /\ DEVICES' =
            CASE c.op = "tv_volume_up" ->
                    SetItem(DEVICES, room, c.device_name, "volume",
                            Min(100, threads[t].volume + 5))
              [] c.op = "tv_mute" ->
                    SetItem(DEVICES, room, c.device_name, "muted", ~threads[t].muted)
              [] c.op = "turn_on_device" ->
                    SetItem(DEVICES, room, c.device_name, "power", IF is_tv THEN "on" ELSE "ON")
              [] c.op = "turn_off_device" ->
                    SetItem(DEVICES, room, c.device_name, "power",
                            IF is_tv THEN "off" ELSE "OFF")
              [] c.op = "set_device_value" ->
                    SetItem(DEVICES, room, c.device_name, c.key, PyStr(c.value))
        /\ Goto(t, "open")
        /\ UNCHANGED <<devices_json, tv_config_json, mqtt_enabled, result, wrote, sent,
                       published, fault_budget, television>>

Payload(c) ==
    CASE c.op = "turn_on_device" -> "ON"
      [] c.op = "turn_off_device" -> "OFF"
      [] c.op = "set_device_value" -> UpperOf[c.key] \o ":" \o c.value

(* client.publish(...), then save_state() up to open(file_path, "w"), which
   truncates devices.json *)
Open(t) ==
    LET c == threads[t].call
    IN  /\ threads[t].pc = "open"
        /\ published' =
            IF c.op \in {"turn_on_device", "turn_off_device", "set_device_value"}
            THEN published \o Publish(Topic(CallRoom(c), c.device_name), Payload(c), "ok")
            ELSE published
        /\ devices_json' = EmptyDict
        /\ Goto(t, "dump")
        /\ UNCHANGED <<DEVICES, tv_config_json, mqtt_enabled, result, wrote, sent, fault_budget, television>>

(* json.dump(state_dict, f): the device states are read now and the text goes
   to the buffer of f *)
Dump(t) ==
    /\ threads[t].pc = "dump"
    /\ threads' = [threads EXCEPT ![t].pc = "close", ![t].buffer = state_dict(DEVICES)]
    /\ UNCHANGED <<DEVICES, devices_json, tv_config_json, mqtt_enabled, result, wrote, sent,
                   published, fault_budget, television>>

(* the end of the with block flushes the buffer to devices.json *)
Close(t) ==
    /\ threads[t].pc = "close"
    /\ devices_json' = threads[t].buffer
    /\ Goto(t, "return")
    /\ UNCHANGED <<DEVICES, tv_config_json, mqtt_enabled, result, wrote, sent, published,
                   fault_budget, television>>

(* save_tv_config() and the return of the handler *)
ReturnCall(t) ==
    /\ threads[t].pc = "return"
    /\ tv_config_json' = tv_configs(DEVICES)
    /\ Finish(t, OkMessage(threads[t].call))
    /\ UNCHANGED <<DEVICES, devices_json, mqtt_enabled, result, wrote, sent, published,
                   fault_budget, television>>

InitC == Started(TV_CONFIG_EXAMPLE, 0, TRUE)

NextC ==
    \/ \E t \in Threads, c \in ConcurrentCalls : Invoke(t, c)
    \/ \E t \in Threads : Resolve(t)
    \/ \E t \in Threads : ChannelCall(t)
    \/ \E t \in Threads : Load(t)
    \/ \E t \in Threads : Store(t)
    \/ \E t \in Threads : Open(t)
    \/ \E t \in Threads : Dump(t)
    \/ \E t \in Threads : Close(t)
    \/ \E t \in Threads : ReturnCall(t)

SpecC == InitC /\ [][NextC]_vars

(***************************************************************************)
(* The reload of a hand-edited tv_config.json into the running hub.        *)
(***************************************************************************)
LoadFiles == {CONFIG_ALIASED, CONFIG_OVER_LIGHT, CONFIG_ROOM_NOT_MAPPING, EmptyDict}

LoadTargets == {<<" Hall", "tv">>, <<"Lounge ", "light3">>}

InitLoad == \E content \in LoadFiles : Started(content, 0, TRUE)

NextLoad ==
    \/ \E content \in LoadFiles : EditConfig(content)
    \/ Running /\ load_tv_configs_from_file
    \/ Running /\ \E t \in LoadTargets : remove_tv_device(t[1], t[2])
    \/ Running /\ \E t \in LoadTargets : add_tv_device(t[1], t[2], "192.168.1.14", 5555)
    \/ Running /\ turn_on_device("livingroom", "light3")
    \/ Restart(TRUE)

SpecLoad == InitLoad /\ [][NextLoad]_vars

(***************************************************************************)
(* normalize_room_name on room names as callers write them: a name in some *)
(* casing, with white space before and after it.                           *)
(***************************************************************************)
(* each name as written, next to the same name in lower case *)
WrittenRooms ==
    {<<"Living Room", "living room">>, <<"LIVING_ROOM", "living_room">>,
     <<"lounge", "lounge">>, <<"Hall", "hall">>, <<"bed room", "bed room">>,
     <<"Bed_Room", "bed_room">>, <<"Master Bedroom", "master bedroom">>,
     <<"KITCHEN", "kitchen">>, <<"Cook Room", "cook room">>,
     <<"LivingRoom", "livingroom">>, <<"bedroom", "bedroom">>,
     <<"Garage", "garage">>, <<"attic", "attic">>, <<"living  room", "living  room">>,
     <<"Guest Room", "guest room">>, <<"", "">>}

Paddings == {"", " ", "\t ", "\n"}

ROOM_GIVEN == "room name given"

ROOM_NORMALIZED == "room name normalized"

ROOM_RENORMALIZED == "normalized room name normalized"

InitNormalize ==
    /\ \E written \in WrittenRooms, before \in Paddings, after \in Paddings :
            result = [text |-> ROOM_GIVEN, room |-> before \o written[1] \o after,
                      lowered |-> written[2]]
    /\ DEVICES = SeedDevices
    /\ devices_json = EmptyDict
    /\ tv_config_json = EmptyDict
    /\ mqtt_enabled = TRUE
    /\ wrote = "none"
    /\ sent = <<>>
    /\ published = <<>>
    /\ fault_budget = 0
    /\ threads = [t \in Threads |-> Idle]
    /\ television = EmptyDict

Normalize ==
    /\ result.text = ROOM_GIVEN
    /\ result' = [result EXCEPT !.text = ROOM_NORMALIZED] @@
                 [normalized |-> normalize_room_name(result.room)]
    /\ UNCHANGED <<DEVICES, devices_json, tv_config_json, mqtt_enabled, wrote, sent,
                   published, fault_budget, threads, television>>

Renormalize ==
    /\ result.text = ROOM_NORMALIZED
    /\ result' = [result EXCEPT !.text = ROOM_RENORMALIZED] @@
                 [again |-> normalize_room_name(result.normalized)]
    /\ UNCHANGED <<DEVICES, devices_json, tv_config_json, mqtt_enabled, wrote, sent,
                   published, fault_budget, threads, television>>

NextNormalize == Normalize \/ Renormalize

SpecNormalize == InitNormalize /\ [][NextNormalize]_vars

(***************************************************************************)
(* The remote-control tools on a television whose app and power vary.      *)
(***************************************************************************)
RemoteTargets == {<<" Hall", "tv">>}

InitRemote == Started(TV_CONFIG_EXAMPLE, 0, TRUE)

NextRemote ==
    \/ \E t \in RemoteTargets, key \in PressKeys : tv_press_key(t[1], t[2], key)
    \/ \E t \in RemoteTargets : tv_send_text(t[1], t[2], "a_b")
    \/ \E t \in RemoteTargets : tv_navigate(t[1], t[2], "back")
    \/ \E t \in RemoteTargets : tv_volume_up(t[1], t[2])
    \/ \E t \in RemoteTargets : tv_volume_down(t[1], t[2])
    \/ \E t \in RemoteTargets : tv_mute(t[1], t[2])
    \/ \E t \in RemoteTargets : tv_open_app(t[1], t[2], "netflix")
    \/ turn_on_device("livingroom", "tv")

SpecRemote == InitRemote /\ [][NextRemote]_vars

(***************************************************************************)
(* The configuration tools on worker threads, next to a command on the     *)
(* television they add or remove.                                          *)
(***************************************************************************)
RaceCalls ==
    {[op |-> "add_tv_device", room |-> "garage", device_name |-> "tv2",
      ip_address |-> "192.168.1.14", port |-> 5555],
     [op |-> "add_tv_device", room |-> "garage", device_name |-> "tv2",
      ip_address |-> "10.0.0.7", port |-> 5556],
     [op |-> "remove_tv_device", room |-> "livingroom", device_name |-> "tv"],
     [op |-> "tv_volume_up", room |-> "Hall ", device_name |-> "tv"]}

KEY_ERROR == "KeyError raised by DEVICES[normalized_room][device_name]"

RUNTIME_ERROR == "RuntimeError raised: dictionary changed size during iteration"

RaceOk(c) ==
    CASE c.op = "add_tv_device" -> TV_ADDED
      [] c.op = "remove_tv_device" -> TV_REMOVED
      [] c.op = "tv_volume_up" -> VOLUME_UP_OK

(* what the handler of call c does with an exception raised inside it: the
   try of add_tv_device and of remove_tv_device covers the change of the
   registry and save_state(); tv_volume_up has no try *)
RaceRaised(c, error) ==
    CASE c.op = "add_tv_device" -> ADD_FAILED
      [] c.op = "remove_tv_device" -> REMOVE_FAILED
      [] c.op = "tv_volume_up" -> error

(* the validation of add_tv_device and the membership tests of the three
   handlers *)
RaceCheck(t) ==
    LET c == threads[t].call
        normalized_room == NormalizedRoom[c.room]
        with_room == SetDefaultRoom(DEVICES, normalized_room)
    IN  /\ threads[t].pc = "resolve"
        /\ IF c.op = "add_tv_device"
           THEN IF ~IpMatches[c.ip_address] THEN Finish(t, INVALID_IP) /\ UNCHANGED DEVICES
                ELSE IF ~port_in_range(c.port) THEN Finish(t, INVALID_PORT) /\ UNCHANGED DEVICES
                ELSE /\ DEVICES' = with_room
                     /\ IF c.device_name \in DOMAIN with_room[normalized_room]
                        THEN Finish(t, ALREADY_EXISTS)
                        ELSE Goto(t, "insert")
           ELSE /\ UNCHANGED DEVICES
                /\ IF Has(DEVICES, normalized_room, c.device_name) THEN Goto(t, "access")
                   ELSE Finish(t, IF c.op = "tv_volume_up" THEN NOT_FOUND ELSE TV_NOT_FOUND)
        /\ UNCHANGED <<devices_json, tv_config_json, mqtt_enabled, result, wrote, sent,
                       published, fault_budget, television>>

(* dev = DEVICES[normalized_room][device_name] and the hasattr() test, both
   outside any try *)
RaceAccess(t) ==
    LET c == threads[t].call
        normalized_room == NormalizedRoom[c.room]
    IN  /\ threads[t].pc = "access"
        /\ IF ~Has(DEVICES, normalized_room, c.device_name) THEN Finish(t, KEY_ERROR)
           ELSE LET dev == DEVICES[normalized_room][c.device_name]
                IN  IF c.op = "remove_tv_device"
                    THEN IF hasattr(dev, "ip_address") THEN Goto(t, "delete")
                         ELSE Finish(t, NOT_A_TV_DEVICE)
                    ELSE IF hasattr(dev, "volume_up") THEN Goto(t, "channel")
                         ELSE Finish(t, NOT_A_TV)
        /\ UNCHANGED <<DEVICES, devices_json, tv_config_json, mqtt_enabled, result, wrote, sent,
                       published, fault_budget, television>>

(* new_tv = TV(...); DEVICES[normalized_room][device_name] = new_tv *)
RaceInsert(t) ==
    LET c == threads[t].call
        normalized_room == NormalizedRoom[c.room]
    IN  /\ threads[t].pc = "insert"
        /\ DEVICES' = Put(DEVICES, normalized_room, c.device_name,
                          TV(c.device_name, normalized_room, c.ip_address, c.port))
        /\ Goto(t, "iterate")
        /\ UNCHANGED <<devices_json, tv_config_json, mqtt_enabled, result, wrote, sent,
                       published, fault_budget, television>>

(* del DEVICES[normalized_room][device_name] *)
RaceDelete(t) ==
    LET c == threads[t].call
        normalized_room == NormalizedRoom[c.room]
    IN  /\ threads[t].pc = "delete"
        /\ IF Has(DEVICES, normalized_room, c.device_name)
           THEN DEVICES' = Del(DEVICES, normalized_room, c.device_name) /\ Goto(t, "iterate")
           ELSE UNCHANGED DEVICES /\ Finish(t, RaceRaised(c, KEY_ERROR))
        /\ UNCHANGED <<devices_json, tv_config_json, mqtt_enabled, result, wrote, sent,
                       published, fault_budget, television>>

(* dev.volume_up() on the object the handler holds: the object stays usable
   after its key has been deleted, and then the registry is not touched *)
RaceChannel(t) ==
    LET c == threads[t].call
        normalized_room == NormalizedRoom[c.room]
    IN  /\ threads[t].pc = "channel"
        /\ \E ok \in BOOLEAN :
            IF ~ok THEN Finish(t, VOLUME_UP_FAILED) /\ UNCHANGED DEVICES
            ELSE /\ Goto(t, "iterate")
                 /\ DEVICES' =
                        IF Has(DEVICES, normalized_room, c.device_name)
                        THEN SetItem(DEVICES, normalized_room, c.device_name, "volume",
                                     Min(100, DEVICES[normalized_room][c.device_name].state.volume + 5))
                        ELSE DEVICES
        /\ UNCHANGED <<devices_json, tv_config_json, mqtt_enabled, result, wrote, sent,
                       published, fault_budget, television>>

(* the names under each room of a registry or of a dictionary built from it *)
NamesOf(D) == [room \in DOMAIN D |-> DOMAIN D[room]]

(* save_state() starts to iterate DEVICES.items() and devices.items() *)
RaceIterate(t) ==
    /\ threads[t].pc = "iterate"
    /\ threads' = [threads EXCEPT ![t].pc = "dump", ![t].buffer = state_dict(DEVICES)]
    /\ UNCHANGED <<DEVICES, devices_json, tv_config_json, mqtt_enabled, result, wrote, sent,
                   published, fault_budget, television>>

(* the rest of the iteration, the two writes and the return.  A dictionary
   whose size changed since the iteration started makes the next step of the
   iteration raise RuntimeError when the change fell into the room being
   iterated, which the timing decides. *)
RaceDump(t) ==
    LET c == threads[t].call
        changed == NamesOf(threads[t].buffer) # NamesOf(DEVICES)
    IN  /\ threads[t].pc = "dump"
        /\ \E raised \in (IF changed THEN BOOLEAN ELSE {FALSE}) :
            IF raised
            THEN Finish(t, RaceRaised(c, RUNTIME_ERROR))
                 /\ UNCHANGED <<devices_json, tv_config_json>>
            ELSE /\ devices_json' = state_dict(DEVICES)
                 /\ tv_config_json' = tv_configs(DEVICES)
                 /\ Finish(t, RaceOk(c))
        /\ UNCHANGED <<DEVICES, mqtt_enabled, result, wrote, sent, published, fault_budget,
                       television>>

InitRace == Started(TV_CONFIG_EXAMPLE, 0, TRUE)

NextRace ==
    \/ \E t \in Threads, c \in RaceCalls : Invoke(t, c)
    \/ \E t \in Threads : RaceCheck(t)
    \/ \E t \in Threads : RaceAccess(t)
    \/ \E t \in Threads : RaceInsert(t)
    \/ \E t \in Threads : RaceDelete(t)
    \/ \E t \in Threads : RaceChannel(t)
    \/ \E t \in Threads : RaceIterate(t)
    \/ \E t \in Threads : RaceDump(t)

SpecRace == InitRace /\ [][NextRace]_vars

(***************************************************************************)
(* Properties.                                                             *)
(***************************************************************************)
NotFoundMessages == {NOT_FOUND, TV_NOT_FOUND, TV_NOT_FOUND_UPDATE}

(* the tools that take a room and a device name *)
RoomCommand(room, device_name) ==
    \/ turn_on_device(room, device_name)
    \/ turn_off_device(room, device_name)
    \/ \E key \in Keys, value \in Values : set_device_value(room, device_name, key, value)
    \/ get_device_state(room, device_name)
    \/ tv_volume_up(room, device_name)
    \/ tv_volume_down(room, device_name)
    \/ tv_mute(room, device_name)
    \/ \E app \in Apps : tv_open_app(room, device_name, app)
    \/ \E direction \in Directions : tv_navigate(room, device_name, direction)
    \/ \E ip_address \in Addresses, port \in Ports :
            update_tv_config(room, device_name, ip_address, port)
    \/ remove_tv_device(room, device_name)

(* C1: called with an alias of the room of a registered device, every tool that
   takes a room finds the device that the canonical room key holds. *)
C1_AliasResolvesDevice ==
    [][\A t \in SimpleTargets :
            (Has(DEVICES, normalize_room_name(t[1]), t[2]) /\ RoomCommand(t[1], t[2]))
                => result'.text \notin NotFoundMessages]_vars

(* the messages with which a mutating tool reports that it did its work *)
SuccessMessages ==
    {NOW_ON, NOW_OFF, VALUE_SET, VOLUME_UP_OK, VOLUME_DOWN_OK, MUTE_OK, APP_OPENED,
     NAVIGATE_OK, TV_ADDED, TV_UPDATED, TV_REMOVED}

(* C2: a mutating tool whose write of devices.json fails still returns its
   success message; no exception reaches the caller. *)
C2_WriteFailureKeepsSuccess == wrote = "failed" => result.text \in SuccessMessages

(* what a restart rebuilds from the files on disk *)
Restarted == initialize_tv_configs(SeedDevices, load_tv_config)

(* C3: once a tool has written the snapshot, a restart rebuilds every device
   with the state mapping it has in memory. *)
C3_RestartRebuildsState ==
    wrote = "ok" =>
        \A room \in DOMAIN DEVICES : \A device_name \in DOMAIN DEVICES[room] :
            /\ Has(Restarted, room, device_name)
            /\ Restarted[room][device_name].state = DEVICES[room][device_name].state

(* the channel commands of the television mutators *)
POWER == "input keyevent KEYCODE_POWER"

CHECK == "echo 'test'"

MutatorCalled == sent # <<>> /\ sent[1].command # CHECK

MutatorSucceeded == MutatorCalled /\ sent[Len(sent)].ok

(* C4: a tool that called a television mutator reports success exactly when
   the mutator reported success. *)
C4_OutcomeFollowsMutator ==
    MutatorCalled => (result.text \in SuccessMessages <=> MutatorSucceeded)

(* C8: when the channel fails a television mutator called by tv_volume_up,
   tv_volume_down, tv_mute, tv_open_app or tv_navigate, the tool reports
   failure, no device changes and devices.json is not written. *)
TvFailureMessages == {VOLUME_UP_FAILED, VOLUME_DOWN_FAILED, MUTE_FAILED, APP_FAILED,
                      NAVIGATE_FAILED}

C8_ChannelFailureChangesNothing ==
    [][(sent' # <<>> /\ sent'[1].command \notin {POWER, CHECK} /\ ~sent'[Len(sent')].ok)
            => /\ result'.text \in TvFailureMessages
               /\ DEVICES' = DEVICES
               /\ wrote' = "none"
               /\ devices_json' = devices_json]_vars

C8_Witness ==
    /\ result.text = VOLUME_UP_FAILED
    /\ sent # <<>> /\ ~sent[1].ok
    /\ Has(DEVICES, "livingroom", "tv")
    /\ DEVICES["livingroom"]["tv"].state.volume = 55
    /\ wrote = "none"

(* C9: turn_on and turn_off of a television set the recorded power only when
   the power signal succeeded; when it failed the registry is as before. *)
C9_PowerFollowsSignal ==
    [][(sent' # <<>> /\ sent'[1].command = POWER)
            => \E room \in DOMAIN DEVICES : \E device_name \in DOMAIN DEVICES[room] :
                  /\ DEVICES[room][device_name].cls = "TV"
                  /\ DEVICES' =
                        IF ~sent'[1].ok THEN DEVICES
                        ELSE [DEVICES EXCEPT ![room][device_name].state.power =
                                IF result'.text = NOW_ON THEN "on" ELSE "off"]]_vars

C9_Witness ==
    /\ result.text = NOW_OFF
    /\ sent # <<>> /\ sent[1].command = POWER /\ ~sent[1].ok
    /\ Has(DEVICES, "livingroom", "tv")
    /\ DEVICES["livingroom"]["tv"].state.power = "on"

(* C10: on a registered simple device turn_on_device and turn_off_device both
   return their message, and turn_off_device leaves power at OFF. *)
C10_OnThenOffLeavesOff ==
    [][\A t \in FaultyTargets :
            (Has(DEVICES, t[1], t[2]) /\ DEVICES[t[1]][t[2]].cls # "TV")
                => /\ turn_on_device(t[1], t[2]) => result'.text = NOW_ON
                   /\ turn_off_device(t[1], t[2])
                        => /\ result'.text = NOW_OFF
                           /\ DEVICES'[t[1]][t[2]].state.power = "OFF"]_vars

(***************************************************************************)
(* Properties of concurrent tool calls.                                    *)
(***************************************************************************)
StartRegistry == initialize_tv_configs(SeedDevices, TV_CONFIG_EXAMPLE)

AllDone == \A t \in Threads : threads[t].pc = "done"

Key(t) == <<CallRoom(threads[t].call), threads[t].call.device_name>>

StateOf(D, key) == D[key[1]][key[2]].state

(* the registry after the call of thread t has run alone on D, the channel
   answering as it answered thread t *)
Alone(D, t) ==
    LET c == threads[t].call
        room == CallRoom(c)
        ch == <<threads[t].success>>
    IN  CASE c.op = "tv_volume_up" ->
                [D EXCEPT ![room][c.device_name] = TV_volume_up(@, ch).dev]
          [] c.op = "tv_mute" -> [D EXCEPT ![room][c.device_name] = TV_mute(@, ch).dev]
          [] c.op = "turn_on_device" ->
                [D EXCEPT ![room][c.device_name] = dev_turn_on(@, ch).dev]
          [] c.op = "turn_off_device" ->
                [D EXCEPT ![room][c.device_name] = dev_turn_off(@, ch).dev]
          [] c.op = "set_device_value" ->
                [D EXCEPT ![room][c.device_name].state[c.key] = PyStr(c.value)]

(* C5: two calls on the same device leave it as if they had run one after the
   other, in one of the two orders. *)
C5_SameDeviceSerialized ==
    (AllDone /\ Key(1) = Key(2)) =>
        \/ StateOf(DEVICES, Key(1)) = StateOf(Alone(Alone(StartRegistry, 1), 2), Key(1))
        \/ StateOf(DEVICES, Key(1)) = StateOf(Alone(Alone(StartRegistry, 2), 1), Key(1))

Succeeded(t) == threads[t].result.text \in SuccessMessages

(* C6: after two successful calls on different devices devices.json holds the
   changes of both. *)
C6_SnapshotHoldsBoth ==
    (AllDone /\ Key(1) # Key(2) /\ Succeeded(1) /\ Succeeded(2)) =>
        devices_json = state_dict(DEVICES)

ThreadStep(t) ==
    \/ Resolve(t) \/ ChannelCall(t) \/ Load(t) \/ Store(t) \/ Open(t) \/ Dump(t)
    \/ Close(t) \/ ReturnCall(t)

(* C7: calls on two different devices do not wait for each other, and each
   device ends in the state its own call gives it when run alone. *)
C7_DifferentDevicesIndependent ==
    /\ \A t \in Threads : threads[t].pc \notin {"idle", "done"} => ENABLED ThreadStep(t)
    /\ (AllDone /\ Key(1) # Key(2)) =>
            \A t \in Threads :
                StateOf(DEVICES, Key(t)) = StateOf(Alone(StartRegistry, t), Key(t))

C7_Witness ==
    /\ AllDone
    /\ threads[1].call.op = "tv_volume_up" /\ Succeeded(1)
    /\ threads[2].call.op = "turn_on_device" /\ Succeeded(2)
    /\ StateOf(DEVICES, Key(1)).volume = 55
    /\ StateOf(DEVICES, Key(2)).power = "ON"

(***************************************************************************)
(* Properties of set_device_value.                                         *)
(***************************************************************************)
(* the state field that set_<key> of the class of dev writes *)
Supports(dev, key) ==
    \/ dev.cls = "Light" /\ key = "brightness"
    \/ dev.cls = "Fan" /\ key = "speed"
    \/ dev.cls = "AC" /\ key = "temperature"
    \/ dev.cls = "Chimney" /\ key = "mode"

(* C11: set_device_value with a key the kind of the device supports sets that
   state field, and only it, to the value given; with any other key it says
   that the device does not support the key, changes no device, publishes
   nothing and writes no snapshot. *)
C11_SetValueByCapability ==
    [][\A t \in ValueTargets, key \in ValueKeys, value \in ValueValues :
            LET room == NormalizedRoom[t[1]]
            IN  (Has(DEVICES, room, t[2]) /\ set_device_value(t[1], t[2], key, value))
                    => IF Supports(DEVICES[room][t[2]], key)
                       THEN /\ result'.text = VALUE_SET
                            /\ DEVICES' = [DEVICES EXCEPT ![room][t[2]].state[key] = [str |-> value]]
                       ELSE /\ result'.text = NOT_SUPPORTED
                            /\ DEVICES' = DEVICES
                            /\ published' = <<>>
                            /\ wrote' = "none"
                            /\ devices_json' = devices_json]_vars

C11_Witness ==
    /\ DEVICES["livingroom"]["light3"].state.brightness = [str |-> "75"]
    /\ DEVICES["kitchen"]["chimney"].state.mode = [str |-> "AUTO"]
    /\ DEVICES["livingroom"]["tv"].state.volume = 50
    /\ result.text = NOT_SUPPORTED
    /\ wrote = "none"

(***************************************************************************)
(* Properties of the configuration tools.                                  *)
(***************************************************************************)
IsDottedQuad == [ip_address \in ConfigAddresses |-> DottedQuad(ip_address)]

(* C12: add_tv_device with an address that is not a dotted quad, or with a
   port outside 1..65535, reports the invalid parameter and changes nothing:
   no device, no room, neither file. *)
C12_InvalidEndpointRejected ==
    [][\A t \in AddTargets, ip_address \in ConfigAddresses, port \in ConfigPorts :
            ((~IsDottedQuad[ip_address] \/ ~port_in_range(port))
                /\ add_tv_device(t[1], t[2], ip_address, port))
                => /\ result'.text \in {INVALID_IP, INVALID_PORT}
                   /\ DEVICES' = DEVICES
                   /\ devices_json' = devices_json
                   /\ tv_config_json' = tv_config_json
                   /\ wrote' = "none"]_vars

(* C13: remove_tv_device on a pair that is not in the registry says that the
   television was not found, raises nothing, changes no device and writes
   neither file. *)
C13_RemoveAbsentIsNoOp ==
    [][\A t \in ConfigTargets :
            (~Has(DEVICES, NormalizedRoom[t[1]], t[2]) /\ remove_tv_device(t[1], t[2]))
                => /\ result' = [text |-> TV_NOT_FOUND]
                   /\ DEVICES' = DEVICES
                   /\ devices_json' = devices_json
                   /\ tv_config_json' = tv_config_json
                   /\ wrote' = "none"]_vars

(* the television of the garage was added and removed, and removing it once
   more did nothing *)
C13_Witness ==
    /\ result.text = TV_NOT_FOUND
    /\ "garage" \in DOMAIN DEVICES
    /\ ~Has(DEVICES, "garage", "tv2")
    /\ "garage" \in DOMAIN devices_json
    /\ wrote = "none"

(***************************************************************************)
(* Properties of the lookup.                                               *)
(***************************************************************************)
(* C14: a tool called with a room and a name that no registered device has
   returns a plain not-found message; no device changes, no channel call is
   made, nothing is published and neither file is written. *)
C14_NotFoundHasNoEffect ==
    [][\A t \in SimpleTargets :
            (~Has(DEVICES, NormalizedRoom[t[1]], t[2]) /\ RoomCommand(t[1], t[2]))
                => /\ \E msg \in NotFoundMessages : result' = [text |-> msg]
                   /\ DEVICES' = DEVICES
                   /\ sent' = <<>>
                   /\ published' = <<>>
                   /\ wrote' = "none"
                   /\ devices_json' = devices_json
                   /\ tv_config_json' = tv_config_json]_vars

C14_Witness ==
    /\ result.text = NOT_FOUND
    /\ ~Has(DEVICES, "bedroom", "light3")
    /\ DEVICES["bedroom"]["ac1"].state.power = "ON"
    /\ "bedroom" \in DOMAIN devices_json
    /\ devices_json["bedroom"]["ac1"].state.power = "ON"
    /\ wrote = "none"

(***************************************************************************)
(* Properties of the notification.                                         *)
(***************************************************************************)
(* C15: on a simple device turn_on_device, turn_off_device and
   set_device_value give the same registry, snapshot and message whether the
   publish went out, failed, or was not made for want of a broker at startup:
   unless the disk fails, the success message is returned and the snapshot is
   written. *)
C15_PublishFailureIgnored ==
    [][\A t \in FaultyTargets :
            (Has(DEVICES, t[1], t[2]) /\ DEVICES[t[1]][t[2]].cls # "TV" /\ wrote' # "failed")
                => /\ turn_on_device(t[1], t[2])
                        => /\ result' = [text |-> NOW_ON]
                           /\ DEVICES' = [DEVICES EXCEPT ![t[1]][t[2]].state.power = "ON"]
                           /\ wrote' = "ok"
                           /\ devices_json' = state_dict(DEVICES')
                   /\ turn_off_device(t[1], t[2])
                        => /\ result' = [text |-> NOW_OFF]
                           /\ DEVICES' = [DEVICES EXCEPT ![t[1]][t[2]].state.power = "OFF"]
                           /\ wrote' = "ok"
                           /\ devices_json' = state_dict(DEVICES')
                   /\ \A value \in Values :
                        set_device_value(t[1], t[2], "brightness", value)
                        => /\ result' = [text |-> VALUE_SET]
                           /\ DEVICES' = [DEVICES EXCEPT
                                            ![t[1]][t[2]].state.brightness = [str |-> value]]
                           /\ wrote' = "ok"
                           /\ devices_json' = state_dict(DEVICES')]_vars

(* the publish of turn_on_device failed; the light is on in memory and on disk *)
C15_Witness ==
    /\ published # <<>> /\ published[1][3] = "no_conn"
    /\ result.text = NOW_ON
    /\ wrote = "ok"
    /\ devices_json # EmptyDict
    /\ devices_json["livingroom"]["light3"].state.power = "ON"

(* C16: a tool publishes and writes the snapshot only when its mutator
   succeeded: after a television mutator that reported failure, nothing is
   published and no snapshot is written. *)
C16_EffectsOnlyAfterSuccess ==
    (MutatorCalled /\ ~MutatorSucceeded) => (published = <<>> /\ wrote = "none")

(***************************************************************************)
(* Properties of the search tools.                                         *)
(***************************************************************************)
(* calls whose failure the sequence answers with another way to the same end:
   the first way of opening an app, and the search key *)
FirstTries ==
    {"monkey -p com.netflix.ninja 1", "monkey -p com.google.android.youtube.tv 1", SEARCH}

SecondTries ==
    {"am start -n com.netflix.ninja/.MainActivity",
     "am start -n com.google.android.youtube.tv/.MainActivity", DPAD_UP}

(* the i-th channel call of the last tool call failed a step: it failed and
   no other way was tried after it *)
StepFailed(i) ==
    /\ ~sent[i].ok
    /\ ~(/\ sent[i].command \in FirstTries
         /\ i < Len(sent)
         /\ sent[i + 1].command \in SecondTries)

(* C17: in tv_search_and_play a step that fails is the last call of the
   sequence and the tool reports failure. *)
C17_FailedStepStopsSearchAndPlay ==
    result.text \in {SEARCH_PLAY_OK, SEARCH_PLAY_FAILED} =>
        \A i \in 1..Len(sent) :
            StepFailed(i) => (i = Len(sent) /\ result.text = SEARCH_PLAY_FAILED)

OpenCommands ==
    {"monkey -p com.netflix.ninja 1", "am start -n com.netflix.ninja/.MainActivity",
     "monkey -p com.google.android.youtube.tv 1",
     "am start -n com.google.android.youtube.tv/.MainActivity"}

AppOf(command) ==
    IF command \in {"monkey -p com.netflix.ninja 1", "am start -n com.netflix.ninja/.MainActivity"}
    THEN "netflix" ELSE "youtube"

(* C18: when a search tool has opened its app and a later step fails, the tool
   reports failure and current_app is the opened app. *)
C18_OpenedAppKeptOnFailure ==
    \A i \in 1..Len(sent) :
        (/\ result.text \in {SEARCH_PLAY_OK, SEARCH_PLAY_FAILED, SEARCH_OK, SEARCH_FAILED}
         /\ sent[i].command \in OpenCommands /\ sent[i].ok
         /\ \E j \in (i + 1)..Len(sent) : StepFailed(j))
            => /\ result.text \in {SEARCH_PLAY_FAILED, SEARCH_FAILED}
               /\ DEVICES["livingroom"]["tv"].state.current_app = AppOf(sent[i].command)

(***************************************************************************)
(* Properties of the reload of television endpoints.                       *)
(***************************************************************************)
IsTv(D, room, device_name) == Has(D, room, device_name) /\ D[room][device_name].cls = "TV"

NamesIn(D, room) == IF room \in DOMAIN D THEN DOMAIN D[room] ELSE {}

(* C19: the reload of tv_config.json leaves every device that is already in
   the registry as it is, a seeded one at startup or any live one, and what
   it creates is a television under a key of the file that was free. *)
C19_ReloadKeepsLiveDevices ==
    /\ result.text = STARTED =>
            \A room \in DOMAIN SeedDevices : \A device_name \in DOMAIN SeedDevices[room] :
                /\ Has(DEVICES, room, device_name)
                /\ DEVICES[room][device_name] = SeedDevices[room][device_name]
    /\ \A configs \in ConfigFiles :
            LET loaded == initialize_tv_configs(DEVICES, configs)
            IN  /\ \A room \in DOMAIN DEVICES : \A device_name \in DOMAIN DEVICES[room] :
                        /\ Has(loaded, room, device_name)
                        /\ loaded[room][device_name] = DEVICES[room][device_name]
                /\ \A room \in DOMAIN loaded : \A device_name \in DOMAIN loaded[room] :
                        ~Has(DEVICES, room, device_name) =>
                            /\ loaded[room][device_name].cls = "TV"
                            /\ \E r \in DOMAIN configs :
                                    /\ NormalizedRoom[r] = room
                                    /\ device_name \in DOMAIN configs[r]

(* the hub started from a file with an entry under the key of light3: the
   light is still a light and the television of the file is there *)
C19_Witness ==
    /\ result.text = STARTED
    /\ tv_config_json = CONFIG_OVER_LIGHT
    /\ DEVICES["livingroom"]["light3"] = Light("light3", "livingroom")
    /\ IsTv(DEVICES, "livingroom", "tv")

(* C20: after add_tv_device, update_tv_config or remove_tv_device has
   succeeded, a restart builds a television under exactly the keys that hold
   one now, each with the ip_address and port it has now. *)
C20_EndpointsSurviveRestart ==
    result.text \in {TV_ADDED, TV_UPDATED, TV_REMOVED} =>
        \A room \in DOMAIN DEVICES \cup DOMAIN Restarted :
            \A device_name \in NamesIn(DEVICES, room) \cup NamesIn(Restarted, room) :
                /\ IsTv(DEVICES, room, device_name) <=> IsTv(Restarted, room, device_name)
                /\ IsTv(DEVICES, room, device_name) =>
                        /\ Restarted[room][device_name].ip_address
                                = DEVICES[room][device_name].ip_address
                        /\ Restarted[room][device_name].port = DEVICES[room][device_name].port

(* the television of the garage moved to another endpoint, the one of the
   living room removed *)
C20_Witness ==
    /\ result.text = TV_REMOVED
    /\ ~Has(DEVICES, "livingroom", "tv")
    /\ IsTv(DEVICES, "garage", "tv2")
    /\ DEVICES["garage"]["tv2"].ip_address = "10.0.0.7"
    /\ DEVICES["garage"]["tv2"].port = 5556
    /\ IsTv(Restarted, "garage", "tv2")

(***************************************************************************)
(* Loading tv_config.json at startup.                                      *)
(***************************************************************************)
WellFormed(config) == IsMapping(config) /\ "ip_address" \in DOMAIN config

(* C21: the start of the server never raises on tv_config.json, whatever is
   malformed in it (a record without ip_address, a record or a room value that
   is not a mapping, a file that does not parse), and every well-formed entry
   of the file is in the registry once the server has started. *)
C21_StartupLoadNeverFatal ==
    [][Restart(TRUE) =>
        /\ result'.text = STARTED
        /\ \A room \in DOMAIN load_tv_config :
                IsMapping(load_tv_config[room]) =>
                    \A device_name \in DOMAIN load_tv_config[room] :
                        WellFormed(load_tv_config[room][device_name]) =>
                            Has(DEVICES', NormalizedRoom[room], device_name)]_vars

(***************************************************************************)
(* The tools that only read.                                               *)
(***************************************************************************)
ReadOnlyCommand ==
    \/ \E t \in HomeTargets : get_device_state(t[1], t[2])
    \/ get_all_states
    \/ list_tv_devices
    \/ \E t \in HomeTargets : check_tv_connection(t[1], t[2])
    \/ \E t \in HomeTargets : diagnose_tv_connection(t[1], t[2])

(* C22: get_device_state, get_all_states, list_tv_devices, check_tv_connection
   and diagnose_tv_connection leave the registry as it is, the state of every
   device and the set of keys, and write neither the snapshot nor the endpoint
   configuration, whatever the channel answers. *)
C22_ReadOnlyCommandsChangeNothing ==
    [][ReadOnlyCommand =>
        /\ DEVICES' = DEVICES
        /\ devices_json' = devices_json
        /\ tv_config_json' = tv_config_json
        /\ wrote' = "none"]_vars

(* list_tv_devices has asked two televisions, one of them muted and one of
   them not answering *)
C22_Witness ==
    /\ result.text = TV_LIST
    /\ Len(sent) = 2
    /\ \E i \in 1..2 : ~sent[i].ok
    /\ DEVICES["livingroom"]["tv"].state.muted
    /\ devices_json # EmptyDict

(***************************************************************************)
(* A television that does not answer, next to other devices.               *)
(***************************************************************************)
FailedOn(t) ==
    /\ \/ tv_mute(t[1], t[2])
       \/ turn_on_device(t[1], t[2])
       \/ turn_off_device(t[1], t[2])
    /\ \E i \in 1..Len(sent') : ~sent'[i].ok

(* C23: when a command on a television fails because its channel does not
   answer, every other device keeps its state and its endpoint, no key of the
   registry comes or goes, and what a later command on another device depends
   on (that device, the broker connection, the disk) is as it was. *)
C23_FailureOnOneTvLeavesOthers ==
    [][\A t \in HomeTargets :
        FailedOn(t) =>
            /\ DOMAIN DEVICES' = DOMAIN DEVICES
            /\ \A room \in DOMAIN DEVICES :
                    /\ DOMAIN DEVICES'[room] = DOMAIN DEVICES[room]
                    /\ \A device_name \in DOMAIN DEVICES[room] :
                            <<room, device_name>> # <<NormalizedRoom[t[1]], t[2]>> =>
                                DEVICES'[room][device_name] = DEVICES[room][device_name]
            /\ mqtt_enabled' = mqtt_enabled
            /\ fault_budget' = fault_budget]_vars

(* the living room television did not answer a mute while the bedroom
   television is muted and the living room light is on *)
C23_Witness ==
    /\ result.text = MUTE_FAILED
    /\ Len(sent) = 1 /\ sent[1].ip_address = "192.168.1.14" /\ ~sent[1].ok
    /\ DEVICES["bedroom"]["tv2"].state.muted
    /\ DEVICES["livingroom"]["light3"].state.power = "ON"

(***************************************************************************)
(* The fields of a device's state.                                         *)
(***************************************************************************)
(* C24: every registered device has a power field at all times, "ON" or "OFF"
   on a simple device and "on" or "off" on a television; no command removes
   the field or gives it another value. *)
C24_PowerFieldAlwaysValid ==
    \A room \in DOMAIN DEVICES :
        \A device_name \in DOMAIN DEVICES[room] :
            LET dev == DEVICES[room][device_name]
            IN  /\ "power" \in DOMAIN dev.state
                /\ dev.state.power \in (IF dev.cls = "TV" THEN {"on", "off"}
                                         ELSE {"ON", "OFF"})

(* set_device_value was asked for the power of a device while a light and a
   television are on *)
C24_Witness ==
    /\ result.text = NOT_SUPPORTED
    /\ DEVICES["livingroom"]["light3"].state.power = "ON"
    /\ DEVICES["livingroom"]["tv"].state.power = "on"
    /\ DEVICES["bedroom"]["tv2"].state.power = "off"

(***************************************************************************)
(* The volume of a television.                                             *)
(***************************************************************************)
VolumeOf(D, key) == D[key[1]][key[2]].state.volume

VolumeStep(key) ==
    /\ key \notin TvKeys(DEVICES) => VolumeOf(DEVICES', key) = 50
    /\ key \in TvKeys(DEVICES) =>
            VolumeOf(DEVICES', key) =
                CASE result'.text = VOLUME_UP_OK -> Min(100, VolumeOf(DEVICES, key) + 5)
                  [] result'.text = VOLUME_DOWN_OK -> Max(0, VolumeOf(DEVICES, key) - 5)
                  [] result'.text = STARTED -> 50
                  [] OTHER -> VolumeOf(DEVICES, key)

(* C25: the volume of a television is an integer from 0 to 100 at all times,
   50 when the television is created; a volume_up that succeeds adds 5 up to
   100, a volume_down that succeeds takes 5 away down to 0, and nothing else
   changes it. *)
C25_VolumeStaysInRange ==
    /\ [](\A key \in TvKeys(DEVICES) : VolumeOf(DEVICES, key) \in 0..100)
    /\ [][\A key \in TvKeys(DEVICES') : VolumeStep(key)]_vars

(* volume_down has succeeded on a television at volume 0 *)
C25_Witness ==
    /\ result.text = VOLUME_DOWN_OK
    /\ Len(sent) = 1 /\ sent[1].ok
    /\ Has(DEVICES, "livingroom", "tv")
    /\ DEVICES["livingroom"]["tv"].state.volume = 0
    /\ devices_json["livingroom"]["tv"].state.volume = 0

(***************************************************************************)
(* The app a television shows.                                             *)
(***************************************************************************)
CurrentApp(D, key) == D[key[1]][key[2]].state.current_app

Launched(app) ==
    \E i \in 1..Len(sent') :
        /\ sent'[i].ok
        /\ sent'[i].command \in OpenCommands
        /\ AppOf(sent'[i].command) = app

HomeSignalled ==
    /\ result'.text \in {APP_OPENED, NAVIGATE_OK}
    /\ \E i \in 1..Len(sent') :
            sent'[i].ok /\ sent'[i].command = "input keyevent KEYCODE_HOME"

AppStep(key) ==
    /\ key \notin TvKeys(DEVICES) => CurrentApp(DEVICES', key) = "home"
    /\ key \in TvKeys(DEVICES) /\ CurrentApp(DEVICES', key) # CurrentApp(DEVICES, key) =>
            \/ result'.text = STARTED /\ CurrentApp(DEVICES', key) = "home"
            \/ CurrentApp(DEVICES', key) \in {"netflix", "youtube"}
                    /\ Launched(CurrentApp(DEVICES', key))
            \/ CurrentApp(DEVICES', key) = "home" /\ HomeSignalled

(* C26: current_app of a television is home, netflix, youtube or unknown at
   all times, home when the television is created; it becomes netflix or
   youtube only by a launch of that app that succeeded, and home only by a
   home signal that succeeded, sent by tv_open_app or tv_navigate. *)
C26_CurrentAppFollowsLaunches ==
    /\ [](\A key \in TvKeys(DEVICES) :
            CurrentApp(DEVICES, key) \in {"home", "netflix", "youtube", "unknown"})
    /\ [][\A key \in TvKeys(DEVICES') : AppStep(key)]_vars

(* a home signal of tv_navigate has failed on a television showing youtube *)
C26_Witness ==
    /\ result.text = NAVIGATE_FAILED
    /\ Len(sent) = 1 /\ sent[1].command = "input keyevent KEYCODE_HOME" /\ ~sent[1].ok
    /\ Has(DEVICES, "livingroom", "tv")
    /\ DEVICES["livingroom"]["tv"].state.current_app = "youtube"

(***************************************************************************)
(* The text send_text hands to the channel.                                *)
(***************************************************************************)
AlphaNumeric == LowerCase \o UpperCase \o "0123456789"

IsAlphaNumeric(c) == \E i \in 1..Len(AlphaNumeric) : CharAt(AlphaNumeric, i) = c

(* s is made of the placeholder %s and of letters and digits *)
RECURSIVE OnlyPlaceholdersAndAlphaNumerics(_)
OnlyPlaceholdersAndAlphaNumerics(s) ==
    IF Len(s) = 0 THEN TRUE
    ELSE IF Len(s) >= 2 /\ SubSeq(s, 1, 2) = "%s"
    THEN OnlyPlaceholdersAndAlphaNumerics(SubSeq(s, 3, Len(s)))
    ELSE IsAlphaNumeric(CharAt(s, 1))
            /\ OnlyPlaceholdersAndAlphaNumerics(SubSeq(s, 2, Len(s)))

Sanitized == [text \in Texts |-> OnlyPlaceholdersAndAlphaNumerics(CleanedOf[text])]

(* C27: the text send_text hands to the channel has no space in it, every
   space having become %s, and apart from these placeholders it is made of
   letters and digits only. *)
C27_SentTextIsSanitized ==
    \A i \in 1..Len(sent) :
        \A text \in Texts :
            sent[i].command = "input text '" \o CleanedOf[text] \o "'" => Sanitized[text]

(***************************************************************************)
(* The content of the files after a snapshot.                              *)
(***************************************************************************)
SnapshotIsRegistry ==
    /\ DOMAIN devices_json = DOMAIN DEVICES
    /\ \A room \in DOMAIN DEVICES :
            /\ DOMAIN devices_json[room] = DOMAIN DEVICES[room]
            /\ \A device_name \in DOMAIN DEVICES[room] :
                    devices_json[room][device_name] = to_dict(DEVICES[room][device_name])
    /\ DOMAIN tv_config_json = {room \in DOMAIN DEVICES : TvKeys(DEVICES) \cap ({room} \X DOMAIN DEVICES[room]) # {}}
    /\ \A key \in TvKeys(DEVICES) :
            /\ key[2] \in DOMAIN tv_config_json[key[1]]
            /\ tv_config_json[key[1]][key[2]] =
                    [ip_address |-> DEVICES[key[1]][key[2]].ip_address,
                     port |-> DEVICES[key[1]][key[2]].port]
    /\ \A room \in DOMAIN tv_config_json :
            \A device_name \in DOMAIN tv_config_json[room] : <<room, device_name>> \in TvKeys(DEVICES)

(* C28: a snapshot replaces what the files held by a dump of the registry as
   it is: after it the files hold the registered devices and nothing else (a
   removed device is gone from them), and a second snapshot of an unchanged
   registry leaves the same content. *)
C28_SnapshotReplacesContent ==
    /\ [](wrote = "ok" => SnapshotIsRegistry)
    /\ [][wrote = "ok" /\ wrote' = "ok" /\ DEVICES' = DEVICES =>
            devices_json' = devices_json /\ tv_config_json' = tv_config_json]_vars

(* the garage television, once added, has been removed and the snapshot
   written: its room is still a key of devices.json *)
C28_Witness ==
    /\ result.text = TV_REMOVED
    /\ wrote = "ok"
    /\ "garage" \in DOMAIN devices_json
    /\ "tv2" \notin DOMAIN devices_json["garage"]
    /\ "garage" \notin DOMAIN tv_config_json

(***************************************************************************)
(* A channel call that times out or raises.                                *)
(***************************************************************************)
(* C29: a channel call that times out, raises or ends with a non-zero return
   code is a failed call: _send_adb_command returns false for it and lets no
   exception out, and the command that made the call returns its failure
   string. *)
C29_ChannelErrorIsFailure ==
    \A i \in 1..Len(sent) :
        "outcome" \in DOMAIN sent[i] /\ sent[i].outcome # "returncode 0" =>
            /\ ~sent[i].ok
            /\ result = [text |-> NOT_CONNECTED]

(* check_tv_connection on a television whose adb call timed out *)
C29_Witness ==
    /\ Len(sent) = 1
    /\ "outcome" \in DOMAIN sent[1]
    /\ sent[1].outcome = "TimeoutExpired"
    /\ sent[1].command = "echo 'test'"
    /\ result.text = NOT_CONNECTED

(***************************************************************************)
(* The television tools on a simple device.                                *)
(***************************************************************************)
TvOnlyCommand(t) ==
    \/ tv_volume_up(t[1], t[2])
    \/ tv_volume_down(t[1], t[2])
    \/ tv_mute(t[1], t[2])
    \/ \E query \in Queries, app \in SearchApps : tv_search_and_play(t[1], t[2], query, app)
    \/ \E query \in Queries, app \in SearchApps : tv_search_content(t[1], t[2], query, app)
    \/ \E text \in Texts : tv_send_text(t[1], t[2], text)
    \/ \E key \in PressKeys : tv_press_key(t[1], t[2], key)
    \/ check_tv_connection(t[1], t[2])
    \/ \E ip_address \in Addresses, port \in Ports :
            update_tv_config(t[1], t[2], ip_address, port)
    \/ remove_tv_device(t[1], t[2])

TvOnlyErrors ==
    {NOT_A_TV, SEARCH_PLAY_NOT_SUPPORTED, SEARCH_NOT_SUPPORTED, TEXT_NOT_SUPPORTED,
     KEY_NOT_SUPPORTED, NOT_A_TV_DEVICE, INVALID_IP, INVALID_PORT}

(* C30: a television tool (volume, mute, search, text, key, connection check,
   update and removal of the endpoint) called on a registered simple device
   returns an error string, raises nothing, and leaves the registry, the
   device and both files as they are. *)
C30_TvCommandOnSimpleDeviceRejected ==
    [][\A t \in TvToolTargets :
        /\ Has(DEVICES, NormalizedRoom[t[1]], t[2])
        /\ DEVICES[NormalizedRoom[t[1]]][t[2]].cls # "TV"
        /\ TvOnlyCommand(t)
        => /\ result'.text \in TvOnlyErrors
           /\ DEVICES' = DEVICES
           /\ devices_json' = devices_json
           /\ tv_config_json' = tv_config_json
           /\ wrote' = "none"
           /\ sent' = <<>>]_vars

(* tv_press_key was called on a fan that is on and has been saved *)
C30_Witness ==
    /\ result.text = KEY_NOT_SUPPORTED
    /\ DEVICES["livingroom"]["fan1"].state.power = "ON"
    /\ devices_json # EmptyDict
    /\ devices_json["livingroom"]["fan1"].state.power = "ON"

(***************************************************************************)
(* The snapshot against the registry in memory.                            *)
(***************************************************************************)
SnapshotAgrees(D, snapshot) ==
    /\ DOMAIN snapshot = DOMAIN D
    /\ \A room \in DOMAIN D :
            /\ DOMAIN snapshot[room] = DOMAIN D[room]
            /\ \A device_name \in DOMAIN D[room] :
                    snapshot[room][device_name].state = D[room][device_name].state

(* C31: once a snapshot has been written, between commands the state of every
   registered device in devices.json is its state in memory: a command that
   returns with a snapshot on disk that agreed before it, or that it wrote
   first, leaves the two in agreement. *)
C31_SnapshotFollowsMemory ==
    [][/\ result'.text # STARTED
       /\ devices_json' # EmptyDict
       /\ devices_json = EmptyDict \/ SnapshotAgrees(DEVICES, devices_json)
       => SnapshotAgrees(DEVICES', devices_json')]_vars

(***************************************************************************)
(* The recorded power of a television against the set's actual power.      *)
(***************************************************************************)
(* C32: a television that is recorded off and is off, and whose power flips
   on every power signal it receives, has its recorded power equal to its
   actual power after any sequence of turn_on_device and turn_off_device,
   turn_on_device called twice included. *)
C32_RecordedPowerIsActualPower ==
    \A key \in TvKeys(DEVICES) :
        LET dev == DEVICES[key[1]][key[2]]
        IN  dev.ip_address \in DOMAIN television =>
                dev.state.power = television[dev.ip_address]

(***************************************************************************)
(* The two launch methods of an app.                                       *)
(***************************************************************************)
PrimaryLaunch ==
    [netflix |-> "monkey -p com.netflix.ninja 1",
     youtube |-> "monkey -p com.google.android.youtube.tv 1"]

AlternateLaunch ==
    [netflix |-> "am start -n com.netflix.ninja/.MainActivity",
     youtube |-> "am start -n com.google.android.youtube.tv/.MainActivity"]

OpenedAsClaimed(key, app) ==
    /\ Len(sent') \in {1, 2}
    /\ sent'[1].command = PrimaryLaunch[app]
    /\ (Len(sent') = 2) = ~sent'[1].ok
    /\ Len(sent') = 2 => sent'[2].command = AlternateLaunch[app]
    /\ CurrentApp(DEVICES', key) =
            IF \E i \in 1..Len(sent') : sent'[i].ok THEN app ELSE CurrentApp(DEVICES, key)

(* C33: opening an app sends the alternate launch exactly when the primary
   launch failed; current_app becomes the app exactly when one of the two
   succeeded and stays what it was when both failed. *)
C33_AlternateLaunchOnlyAfterFailure ==
    [][\A t \in TvTargets, app \in {"netflix", "YouTube"} :
        /\ <<NormalizedRoom[t[1]], t[2]>> \in TvKeys(DEVICES)
        /\ tv_open_app(t[1], t[2], app)
        => OpenedAsClaimed(<<NormalizedRoom[t[1]], t[2]>>, LowerOf[app])]_vars

(* both launches of youtube have failed on a television showing netflix *)
C33_Witness ==
    /\ result.text = APP_FAILED
    /\ Len(sent) = 2
    /\ sent[1].command = PrimaryLaunch["youtube"] /\ ~sent[1].ok
    /\ sent[2].command = AlternateLaunch["youtube"] /\ ~sent[2].ok
    /\ Has(DEVICES, "livingroom", "tv")
    /\ DEVICES["livingroom"]["tv"].state.current_app = "netflix"

(***************************************************************************)
(* Properties of the configuration tools on worker threads.                *)
(***************************************************************************)
AddedBy(t) ==
    /\ threads[t].pc = "done"
    /\ threads[t].call.op = "add_tv_device"
    /\ threads[t].result.text = TV_ADDED

(* C34: of two add_tv_device calls for the same free key that run at the same
   time exactly one inserts its television and the other is answered that the
   device already exists. *)
C34_OneConcurrentAddWins ==
    \A t1, t2 \in Threads :
        /\ t1 # t2
        /\ threads[t1].pc = "done" /\ threads[t2].pc = "done"
        /\ threads[t1].call.op = "add_tv_device" /\ threads[t2].call.op = "add_tv_device"
        /\ NormalizedRoom[threads[t1].call.room] = NormalizedRoom[threads[t2].call.room]
        /\ threads[t1].call.device_name = threads[t2].call.device_name
        => \/ AddedBy(t1) /\ threads[t2].result.text = ALREADY_EXISTS
           \/ AddedBy(t2) /\ threads[t1].result.text = ALREADY_EXISTS

(* C36: a command or a removal that runs at the same time as remove_tv_device
   on the same television never ends by raising: neither KeyError from the
   access after the membership test nor RuntimeError from the iteration of
   save_state. *)
C36_NoRaiseNextToRemoval ==
    \A t \in Threads : threads[t].result.text \notin {KEY_ERROR, RUNTIME_ERROR}

(***************************************************************************)
(* Properties of update_tv_config.                                         *)
(***************************************************************************)
(* every device but the one under (room, device_name) is as it was, and no
   key came or went *)
OthersUnchanged(room, device_name) ==
    /\ NamesOf(DEVICES') = NamesOf(DEVICES)
    /\ \A r \in DOMAIN DEVICES : \A n \in DOMAIN DEVICES[r] :
            <<r, n>> # <<room, device_name>> => DEVICES'[r][n] = DEVICES[r][n]

(* C35: update_tv_config changes nothing but ip_address and port of the
   addressed television, and those only when the address is a dotted quad,
   the port is in 1..65535 and the device is a television; its state mapping
   and every other device stay as they were. *)
C35_UpdateChangesOnlyValidEndpoint ==
    [][\A t \in ConfigTargets, ip_address \in ConfigAddresses, port \in ConfigPorts :
            update_tv_config(t[1], t[2], ip_address, port)
                => LET room == NormalizedRoom[t[1]]
                   IN  /\ OthersUnchanged(room, t[2])
                       /\ Has(DEVICES, room, t[2])
                            => LET before == DEVICES[room][t[2]]
                                   after == DEVICES'[room][t[2]]
                               IN  /\ after.state = before.state
                                   /\ after.cls = before.cls
                                   /\ after.name = before.name
                                   /\ after.room = before.room
                                   /\ after # before
                                        => /\ IsDottedQuad[ip_address]
                                           /\ port_in_range(port)
                                           /\ before.cls = "TV"
                                           /\ after = [before EXCEPT !.ip_address = ip_address,
                                                                     !.port = port]]_vars

(***************************************************************************)
(* Properties of the registry keys.                                        *)
(***************************************************************************)
(* what makes a device the device it is: everything but its state values *)
Identity(dev) ==
    [cls |-> dev.cls, name |-> dev.name, room |-> dev.room, fields |-> DOMAIN dev,
     keys |-> DOMAIN dev.state]

SeededKept(D) ==
    \A room \in DOMAIN SeedDevices : \A device_name \in DOMAIN SeedDevices[room] :
        /\ Has(D, room, device_name)
        /\ Identity(D[room][device_name]) = Identity(SeedDevices[room][device_name])

OnlyTvsComeAndGo ==
    \A room \in DOMAIN DEVICES \cup DOMAIN DEVICES' :
        \A device_name \in (IF room \in DOMAIN DEVICES THEN DOMAIN DEVICES[room] ELSE {})
                           \cup (IF room \in DOMAIN DEVICES' THEN DOMAIN DEVICES'[room] ELSE {}) :
            LET was == Has(DEVICES, room, device_name)
                is == Has(DEVICES', room, device_name)
            IN  (was # is \/ (was /\ is /\ Identity(DEVICES[room][device_name])
                                          # Identity(DEVICES'[room][device_name])))
                    => /\ was => DEVICES[room][device_name].cls = "TV"
                       /\ is => DEVICES'[room][device_name].cls = "TV"

(* C37: every seeded key keeps its simple device of the same kind whatever
   commands run, and a key that appears, disappears or changes hands holds a
   television before and after. *)
C37_SeededDevicesPermanent == [](SeededKept(DEVICES)) /\ [][OnlyTvsComeAndGo]_vars

(* a file with an entry over light3 was loaded: the entry was reported as an
   error, two televisions were taken over and the light, switched on before,
   is still the light *)
C37_Witness ==
    /\ result.text = CONFIG_LOADED
    /\ result.errors = 1
    /\ result.added + result.updated = 2
    /\ DEVICES["livingroom"]["light3"].cls = "Light"
    /\ DEVICES["livingroom"]["light3"].state.power = "ON"
    /\ Has(DEVICES, "bedroom", "tv2")

(* normalize_room_name of every room a key of the registry can be *)
RoomKeys == Rooms \cup {NormalizedRoom[room] : room \in Rooms} \cup DOMAIN SeedDevices

NormalizedKey == [room \in RoomKeys |-> normalize_room_name(room)]

(* C38: every device in the registry under (room, name) has that name and
   that room in its own fields, and every room key is left as it is by
   normalize_room_name. *)
C38_KeysMatchDevices ==
    \A room \in DOMAIN DEVICES :
        /\ room \in RoomKeys
        /\ NormalizedKey[room] = room
        /\ \A device_name \in DOMAIN DEVICES[room] :
                /\ DEVICES[room][device_name].name = device_name
                /\ DEVICES[room][device_name].room = room

(* a television added to " Hall" next to one loaded from the file's
   "Bed Room": both are filed under the canonical rooms *)
C38_Witness ==
    /\ result.text = TV_ADDED
    /\ Has(DEVICES, "livingroom", "tv")
    /\ Has(DEVICES, "bedroom", "tv2")
    /\ DEVICES["bedroom"]["tv2"].room = "bedroom"
    /\ DOMAIN DEVICES = DOMAIN SeedDevices

(***************************************************************************)
(* Properties of normalize_room_name.                                      *)
(***************************************************************************)
(* C39: normalize_room_name gives the canonical room of the lower-cased
   trimmed name when that is a listed alias and the lower-cased trimmed name
   itself otherwise; applied to its own result it returns it unchanged; and
   every canonical room of the alias table is a room of the seeded registry. *)
C39_NormalizeRoomName ==
    /\ result.text \in {ROOM_NORMALIZED, ROOM_RENORMALIZED} =>
            result.normalized = (IF result.lowered \in DOMAIN ROOM_ALIASES
                                 THEN ROOM_ALIASES[result.lowered] ELSE result.lowered)
    /\ result.text = ROOM_RENORMALIZED => result.again = result.normalized
    /\ \A alias \in DOMAIN ROOM_ALIASES : ROOM_ALIASES[alias] \in DOMAIN SeedDevices

(* an alias in capitals between white space, normalized twice *)
C39_Witness ==
    /\ result.text = ROOM_RENORMALIZED
    /\ result.room = "\t Master Bedroom\n"
    /\ result.normalized = "bedroom"
    /\ result.again = "bedroom"

(***************************************************************************)
(* Properties of the remote-control tools.                                 *)
(***************************************************************************)
RemoteStep(t) ==
    \/ \E key \in PressKeys : tv_press_key(t[1], t[2], key)
    \/ tv_send_text(t[1], t[2], "a_b")
    \/ tv_navigate(t[1], t[2], "back")
    \/ tv_volume_up(t[1], t[2])
    \/ tv_volume_down(t[1], t[2])
    \/ tv_mute(t[1], t[2])

AppAndPowerKept ==
    \A key \in TvKeys(DEVICES) :
        /\ Has(DEVICES', key[1], key[2])
        /\ CurrentApp(DEVICES', key) = CurrentApp(DEVICES, key)
        /\ DEVICES'[key[1]][key[2]].state.power = DEVICES[key[1]][key[2]].state.power

(* C40: tv_press_key, tv_send_text, tv_navigate("back"), tv_volume_up,
   tv_volume_down and tv_mute leave current_app and power of every television
   as they were, whether the channel call succeeds or fails; a tv_press_key
   of the home key that went through leaves current_app as it was, and a
   tv_mute that went through changes muted to its negation and nothing else
   in the registry. *)
C40_RemoteKeepsAppAndPower ==
    [][\A t \in RemoteTargets :
            LET room == NormalizedRoom[t[1]]
            IN  /\ RemoteStep(t) => AppAndPowerKept
                /\ (tv_press_key(t[1], t[2], "Home") /\ result'.text = KEY_PRESSED)
                        => CurrentApp(DEVICES', <<room, t[2]>>) = CurrentApp(DEVICES, <<room, t[2]>>)
                /\ (tv_mute(t[1], t[2]) /\ result'.text = MUTE_OK)
                        => DEVICES' = SetItem(DEVICES, room, t[2], "muted",
                                              ~DEVICES[room][t[2]].state.muted)]_vars

(* the home key went through to a television that is on and shows Netflix,
   and the record still says Netflix *)
C40_Witness ==
    /\ result.text = KEY_PRESSED
    /\ Len(sent) = 1 /\ sent[1].command = "input keyevent KEYCODE_HOME" /\ sent[1].ok
    /\ CurrentApp(DEVICES, <<"livingroom", "tv">>) = "netflix"
    /\ DEVICES["livingroom"]["tv"].state.power = "on"

====
